-------------------------------- MODULE Profile --------------------------------
(***************************************************************************)
(* The profiles of the hotels, in memory.  Of the texts a profile has only *)
(* the name and the room types matter to anybody; the rest is left out.    *)
(***************************************************************************)
EXTENDS Integers, Sequences

CONSTANTS HotelId, Name, RoomType

VARIABLE profiles   \* profiles[h]: the profile of h, or NoProfile

NoProfile == [name |-> ""]

HotelProfile == [name : Name, room_types : Seq(RoomType)]

TypeOK == profiles \in [HotelId -> HotelProfile \cup {NoProfile}]

Empty == [h \in HotelId |-> NoProfile]

-----------------------------------------------------------------------------
UpsertProfileRequest(h, name, types) ==
  [hotel_id |-> h, name |-> name, room_types |-> types]

CanUpsertProfile(req) == req.hotel_id # "" /\ req.name # ""

UpsertProfile(req) ==
  /\ CanUpsertProfile(req)
  /\ profiles' = [profiles EXCEPT ![req.hotel_id] =
                    [name |-> req.name, room_types |-> req.room_types]]

\* GetProfile answers profiles[h], or NotFound.
CanGetProfile(h) == profiles[h] # NoProfile

GetProfile(h) ==
  [hotel_id |-> h, name |-> profiles[h].name, room_types |-> profiles[h].room_types]

Restart == profiles' = Empty
=============================================================================
