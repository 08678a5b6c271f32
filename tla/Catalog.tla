-------------------------------- MODULE Catalog --------------------------------
(***************************************************************************)
(* How a hotel gets into a search.  Admin writes a hotel to geo and then   *)
(* to profile, two calls, and a rate to pricing.  Search asks geo for the  *)
(* hotels near a place, then for each of them profile and, for each of its *)
(* room types, pricing, leaves out what it gets no answer for, and ranks   *)
(* the rest by price.  Admin and Search keep no state and take no locks,   *)
(* so their calls interleave at every one of these RPCs; any RPC may fail  *)
(* without being carried out, or be carried out and its answer be lost,    *)
(* and each of the three services may restart and lose its table.          *)
(***************************************************************************)
EXTENDS Integers, Sequences, FiniteSets, SequencesExt

CONSTANTS HotelId, Name, RoomType, MaxCoord, MaxInt64, MaxNights,
          AdminCall,           \* calls to Admin
          UpsertHotelAsked,    \* what they may ask for
          SetRatePlanAsked,
          SearchRequest,       \* what the search may ask for
          Seeds,               \* catalogs earlier calls have built
          MaxLost              \* bound on the RPCs and restarts that go wrong

\* The messages to Admin and Search; an unset field reads as "" or 0.
UpsertHotelMessage == [hotel_id : HotelId \cup {""}, name : Name \cup {""}, at : Int,
                       room_types : Seq(RoomType)]
SetRatePlanMessage == [hotel_id : HotelId \cup {""}, room_type : RoomType \cup {""},
                       nightly_rate : -MaxInt64 - 1 .. MaxInt64]
SearchMessage == [at : Int, radius : Int, check_in : Int, check_out : Int, guests : Int]

ASSUME CatalogAssumption ==
  /\ UpsertHotelAsked \subseteq UpsertHotelMessage
  /\ SetRatePlanAsked \subseteq SetRatePlanMessage
  /\ SearchRequest \subseteq SearchMessage
  /\ "" \notin HotelId \cup Name \cup RoomType
  /\ MaxCoord \in Nat /\ MaxInt64 \in Nat /\ MaxNights \in Nat /\ MaxLost \in Nat

VARIABLES hotels, profiles, plans,  \* the tables of geo, profile and pricing
          admin,     \* admin[a]: where call a to Admin is, and its request
          search,    \* where the search is, what it has found and answered
          touched,   \* hotels written to, or an RPC about them lost, since it began
          restarted, \* services that have restarted
          lost       \* RPCs that went wrong so far

Geography == INSTANCE Geo
Profiles == INSTANCE Profile
Prices == INSTANCE Pricing

\* Admin has built the seeds, and no service had restarted before.
ASSUME SeedsAssumption ==
  \A seed \in Seeds :
    /\ seed.hotels \in [HotelId -> Geography!Place \cup {Geography!NoPlace}]
    /\ seed.profiles \in [HotelId -> Profiles!HotelProfile \cup {Profiles!NoProfile}]
    /\ seed.plans \in [HotelId \X RoomType -> 0 .. MaxInt64]
    /\ \A h \in HotelId :
         seed.profiles[h] # Profiles!NoProfile => seed.hotels[h] # Geography!NoPlace

tables == <<hotels, profiles, plans>>
catalogVars == <<tables, admin, search, touched, restarted, lost>>

NoResult == [hotel_id |-> ""]

SearchResult == [hotel_id : HotelId, name : Name, nightly_rate : Nat, total : Int]

NewSearch(req) == [step |-> "idle", req |-> req, near |-> {}, hotel |-> "", prof |-> <<>>,
                   rooms |-> <<>>, best |-> NoResult, results |-> <<>>]

CatalogInit ==
  /\ \E seed \in Seeds : /\ hotels = seed.hotels
                         /\ profiles = seed.profiles
                         /\ plans = seed.plans
  /\ admin = [a \in AdminCall |-> [step |-> "idle"]]
  /\ search \in {NewSearch(req) : req \in SearchRequest}
  /\ touched = {} /\ restarted = {} /\ lost = 0

-----------------------------------------------------------------------------
\* One RPC to another service: Done is what it does, Can whether the service
\* grants it; ok is the answer the caller gets.
Rpc(Can, Done, same, ok) ==
  \/ ok /\ Can /\ Done /\ UNCHANGED lost
  \/ ~ok /\ ~Can /\ UNCHANGED <<same, lost>>
  \/ ~ok /\ lost < MaxLost /\ lost' = lost + 1 /\ UNCHANGED same
  \/ ~ok /\ Can /\ Done /\ lost < MaxLost /\ lost' = lost + 1

\* What happens before the search asks geo is part of the catalog it sees.
Touch(h) == touched' = IF search.step = "idle" THEN {} ELSE touched \cup {h}

AdminUpsertHotel(a, req) ==
  /\ admin[a].step = "idle"
  /\ req.hotel_id # "" /\ req.name # ""
  /\ admin' = [admin EXCEPT ![a] = [step |-> "geo", req |-> req]]
  /\ UNCHANGED <<tables, search, touched, restarted, lost>>

\* Mutant: an error of geo does not end the call.
GeoUpsertAnyway(a) ==
  /\ admin[a].step = "geo"
  /\ LET req == Geography!UpsertHotelRequest(admin[a].req.hotel_id, admin[a].req.at)
     IN  \E ok \in BOOLEAN :
           /\ Rpc(Geography!CanUpsertHotel(req), Geography!UpsertHotel(req), hotels, ok)
           /\ Touch(req.hotel_id)
           /\ admin' = [admin EXCEPT ![a].step = "profile"]
  /\ UNCHANGED <<profiles, plans, search, restarted>>

GeoUpsert(a) ==
  /\ admin[a].step = "geo"
  /\ LET req == Geography!UpsertHotelRequest(admin[a].req.hotel_id, admin[a].req.at)
     IN  \E ok \in BOOLEAN :
           /\ Rpc(Geography!CanUpsertHotel(req), Geography!UpsertHotel(req), hotels, ok)
           /\ Touch(req.hotel_id)
           /\ admin' = [admin EXCEPT ![a].step = IF ok THEN "profile" ELSE "failed"]
  /\ UNCHANGED <<profiles, plans, search, restarted>>

ProfileUpsert(a) ==
  /\ admin[a].step = "profile"
  /\ LET req == Profiles!UpsertProfileRequest(admin[a].req.hotel_id, admin[a].req.name,
                                              admin[a].req.room_types)
     IN  \E ok \in BOOLEAN :
           /\ Rpc(Profiles!CanUpsertProfile(req), Profiles!UpsertProfile(req), profiles, ok)
           /\ Touch(req.hotel_id)
           /\ admin' = [admin EXCEPT ![a].step = IF ok THEN "done" ELSE "failed"]
  /\ UNCHANGED <<hotels, plans, search, restarted>>

\* Admin's own checks are among those of pricing, and it makes the one call.
AdminSetRatePlan(a, asked) ==
  /\ admin[a].step = "idle"
  /\ LET req == Prices!SetRatePlanRequest(asked.hotel_id, asked.room_type, asked.nightly_rate)
     IN  \E ok \in BOOLEAN :
           /\ Rpc(Prices!CanSetRatePlan(req), Prices!SetRatePlan(req), plans, ok)
           /\ Touch(req.hotel_id)
           /\ admin' = [admin EXCEPT ![a].step = IF ok THEN "done" ELSE "failed"]
  /\ UNCHANGED <<hotels, profiles, search, restarted>>

-----------------------------------------------------------------------------
Validate(req) == /\ Geography!ValidCoords(req.at) /\ req.radius > 0
                 /\ req.check_in < req.check_out /\ req.guests > 0

SearchNearby ==
  /\ search.step = "idle" /\ Validate(search.req)
  /\ LET near == Geography!NearbyRequest(search.req.at, search.req.radius)
     IN  \/ /\ search' = [search EXCEPT !.step = "hotels", !.near = Geography!Nearby(near)]
            /\ UNCHANGED lost
         \/ /\ lost < MaxLost /\ lost' = lost + 1
            /\ search' = [search EXCEPT !.step = "failed"]
  /\ UNCHANGED <<tables, admin, touched, restarted>>

Skip(h) == search' = [search EXCEPT !.near = @ \ {h}]

GetProfile(h) ==
  /\ search.step = "hotels" /\ h \in search.near
  /\ \/ /\ Profiles!CanGetProfile(h)
        /\ LET prof == Profiles!GetProfile(h)
           IN  search' = [search EXCEPT !.step = "rooms", !.near = @ \ {h}, !.hotel = h,
                            !.prof = prof, !.rooms = prof.room_types, !.best = NoResult]
        /\ UNCHANGED <<touched, lost>>
     \/ ~Profiles!CanGetProfile(h) /\ Skip(h) /\ UNCHANGED <<touched, lost>>
     \/ lost < MaxLost /\ lost' = lost + 1 /\ Touch(h) /\ Skip(h)
  /\ UNCHANGED <<tables, admin, restarted>>

\* Mutant: the last room type that has a price is taken for the best.
BetterLast(best, total) == TRUE

Better(best, total) == best = NoResult \/ total < best.total

\* One room type of cheapestRoom.
Quote ==
  /\ search.step = "rooms" /\ search.rooms # <<>>
  /\ LET h == search.hotel
         req == Prices!QuoteRequest(h, Head(search.rooms), search.req)
         quote == Prices!Quote(req)
         best == IF Prices!CanQuote(req) /\ Better(search.best, quote.total)
                 THEN [hotel_id |-> h, name |-> search.prof.name,
                       nightly_rate |-> quote.nightly_rate, total |-> quote.total]
                 ELSE search.best
     IN  \/ /\ search' = [search EXCEPT !.rooms = Tail(@), !.best = best]
            /\ UNCHANGED <<touched, lost>>
         \/ /\ lost < MaxLost /\ lost' = lost + 1 /\ Touch(h)
            /\ search' = [search EXCEPT !.rooms = Tail(@)]
  /\ UNCHANGED <<tables, admin, restarted>>

NextHotel ==
  /\ search.step = "rooms" /\ search.rooms = <<>>
  /\ search' = [search EXCEPT !.step = "hotels", !.hotel = "", !.prof = <<>>, !.best = NoResult,
                  !.results = IF search.best = NoResult THEN @ ELSE Append(@, search.best)]
  /\ UNCHANGED <<tables, admin, touched, restarted, lost>>

\* Mutant: the swap happens for the cheaper one in front.
InsertBackwards(sorted, r) ==
  LET after == {i \in DOMAIN sorted : sorted[i].total < r.total}
  IN  InsertAt(sorted, Len(sorted) + 1 - Cardinality(after), r)

\* The insertion sort: r is swapped to the front past whatever costs more.
Insert(sorted, r) ==
  LET after == {i \in DOMAIN sorted : sorted[i].total > r.total}
  IN  InsertAt(sorted, Len(sorted) + 1 - Cardinality(after), r)

Rank ==
  /\ search.step = "hotels" /\ search.near = {}
  /\ search' = [search EXCEPT !.step = "done", !.results = FoldLeft(Insert, <<>>, @)]
  /\ UNCHANGED <<tables, admin, touched, restarted, lost>>

-----------------------------------------------------------------------------
\* A service dies and starts again with an empty table.
ServiceRestart(service) ==
  /\ service \notin restarted /\ lost < MaxLost
  /\ restarted' = restarted \cup {service} /\ lost' = lost + 1
  /\ \/ service = "geo" /\ Geography!Restart /\ UNCHANGED <<profiles, plans>>
     \/ service = "profile" /\ Profiles!Restart /\ UNCHANGED <<hotels, plans>>
     \/ service = "pricing" /\ Prices!Restart /\ UNCHANGED <<hotels, profiles>>
  /\ touched' = IF search.step = "idle" THEN {} ELSE HotelId
  /\ UNCHANGED <<admin, search>>

CatalogNext ==
  \/ \E a \in AdminCall : \/ \E req \in UpsertHotelAsked : AdminUpsertHotel(a, req)
                          \/ GeoUpsert(a) \/ ProfileUpsert(a)
                          \/ \E req \in SetRatePlanAsked : AdminSetRatePlan(a, req)
  \/ SearchNearby \/ \E h \in HotelId : GetProfile(h)
  \/ Quote \/ NextHotel \/ Rank
  \/ \E service \in {"geo", "profile", "pricing"} : ServiceRestart(service)

CatalogSpec == CatalogInit /\ [][CatalogNext]_catalogVars

-----------------------------------------------------------------------------
CatalogTypeOK ==
  /\ Geography!TypeOK /\ Profiles!TypeOK /\ Prices!TypeOK
  /\ \A i \in DOMAIN search.results : search.results[i] \in SearchResult
  /\ search.near \subseteq HotelId /\ touched \subseteq HotelId \cup {""}

Stay == search.req.check_out - search.req.check_in

\* The price of the stay by the formula, over unbounded integers.
Total(h, r) == LET subtotal == plans[<<h, r>>] * Stay
               IN  subtotal + subtotal \div 10 + Prices!FlatBookingFee

Offered(h) == {r \in ToSet(profiles[h].room_types) : plans[<<h, r>>] # 0}

Totals(h) == {Total(h, r) : r \in Offered(h)}

\* Pricing can count the nights and hold the prices of the hotel.
Fits(h) == Stay <= MaxNights /\ \A total \in Totals(h) : total <= MaxInt64

Wanted(h) ==
  /\ hotels[h] # Geography!NoPlace
  /\ Geography!HaversineKm(hotels[h].at, search.req.at) <= search.req.radius
  /\ profiles[h] # Profiles!NoProfile
  /\ Totals(h) # {}

Listed(h) == {i \in DOMAIN search.results : search.results[i].hotel_id = h}

\* The result has the rate of a room of h and, if it fits, the lowest of its prices.
OfTheCheapest(result, h) ==
  /\ Fits(h) => \A total \in Totals(h) : result.total <= total
  /\ \E r \in Offered(h) : /\ result.nightly_rate = plans[<<h, r>>]
                            /\ Fits(h) => result.total = Total(h, r)

\* A search is right about every hotel that nobody wrote to while it ran and no RPC
\* about it was lost: the hotel is listed, once and with the rate of one of its rooms,
\* exactly if it is in range and has a profile and a price, and if a Duration can hold the
\* stay and an int64 its prices, at the cheapest of them.  Whatever happens to the others.
SearchSeesTheStable ==
  search.step = "done" =>
    \A h \in HotelId \ touched :
      IF Wanted(h)
      THEN /\ Cardinality(Listed(h)) = 1
           /\ \A i \in Listed(h) : OfTheCheapest(search.results[i], h)
      ELSE Listed(h) = {}

\* Whatever races a search, its results rise in price and have no hotel twice.
ResultsRanked ==
  search.step = "done" =>
    \A i, j \in DOMAIN search.results :
      i < j => /\ search.results[i].total <= search.results[j].total
               /\ search.results[i].hotel_id # search.results[j].hotel_id

\* Admin writes geo first: whoever has a profile can be found near its place, unless
\* geo has lost it; the other half, a place without a profile, is what searches skip.
ProfiledIsPlaced ==
  \A h \in HotelId :
    profiles[h] # Profiles!NoProfile => hotels[h] # Geography!NoPlace \/ "geo" \in restarted
=============================================================================
