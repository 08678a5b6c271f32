---------------------------------- MODULE Geo ----------------------------------
(***************************************************************************)
(* The positions of the hotels, in memory.  A position stands for a pair   *)
(* of coordinates: it is a point on a line, and the distance of two points *)
(* for the great-circle distance in floating point.                        *)
(***************************************************************************)
EXTENDS Integers

CONSTANTS HotelId,
          MaxCoord   \* positions beyond it are out of range

VARIABLE hotels      \* hotels[h]: the position of h, or NoPlace

NoPlace == [known |-> FALSE]

Place == [known : {TRUE}, at : -MaxCoord .. MaxCoord]

TypeOK == hotels \in [HotelId -> Place \cup {NoPlace}]

Empty == [h \in HotelId |-> NoPlace]

-----------------------------------------------------------------------------
ValidCoords(at) == at \in -MaxCoord .. MaxCoord

\* The messages.
UpsertHotelRequest(h, at) == [hotel_id |-> h, at |-> at]
NearbyRequest(at, radius) == [at |-> at, radius |-> radius]

CanUpsertHotel(req) == req.hotel_id # "" /\ ValidCoords(req.at)

UpsertHotel(req) ==
  /\ CanUpsertHotel(req)
  /\ hotels' = [hotels EXCEPT ![req.hotel_id] = [known |-> TRUE, at |-> req.at]]

HaversineKm(a, b) == IF a < b THEN b - a ELSE a - b

CanNearby(req) == ValidCoords(req.at) /\ req.radius > 0

\* The answer lists them in any order.
Nearby(req) ==
  {h \in HotelId : hotels[h] # NoPlace /\ HaversineKm(req.at, hotels[h].at) <= req.radius}

Restart == hotels' = Empty
=============================================================================
