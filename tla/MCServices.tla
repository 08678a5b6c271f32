------------------------------ MODULE MCServices ------------------------------
(* The services besides the reservation path.  They share no state and do not *)
(* call each other (search and admin, which do, are in the catalog with what   *)
(* they call), so each is explored alone: the first state chooses which.       *)
EXTENDS Payment, User, Auth, Catalog

CONSTANTS Bid, Budget, MaxCampaigns, MaxSlots, Reviewer, Rating, MaxInt32, MaxReviews,
          Services,   \* the services this run is about
          h1, h2, h3, r1, r2

VARIABLES campaigns, slots, reviews, seq,
          service     \* the one that runs

AdService == INSTANCE Ads
Reviews == INSTANCE Review

ASSUME ServicesAssumption == AdService!AdsAssumption /\ Reviews!ReviewAssumption

adVars == <<campaigns, slots>>
reviewVars == <<reviews, seq>>

ServicesInit ==
  /\ service \in Services
  /\ Init /\ UserInit /\ AuthInit /\ AdService!Init /\ Reviews!ReviewInit
  /\ CatalogInit
  /\ service # "catalog" => /\ hotels = Geography!Empty
                            /\ search.req = CHOOSE req \in SearchRequest : TRUE

PaymentStep == service = "payment" /\ Next
               /\ UNCHANGED <<service, userVars, authVars, catalogVars, adVars, reviewVars>>
UserStep == service = "user" /\ UserNext
            /\ UNCHANGED <<service, auths, authVars, catalogVars, adVars, reviewVars>>
AuthStep == service = "auth" /\ AuthNext
            /\ UNCHANGED <<service, auths, userVars, catalogVars, adVars, reviewVars>>
CatalogStep == service = "catalog" /\ CatalogNext
               /\ UNCHANGED <<service, auths, userVars, authVars, adVars, reviewVars>>
AdsStep == service = "ads" /\ AdService!Next
           /\ UNCHANGED <<service, auths, userVars, authVars, catalogVars, reviewVars>>
ReviewStep == service = "review" /\ Reviews!ReviewNext
              /\ UNCHANGED <<service, auths, userVars, authVars, catalogVars, adVars>>

ServicesNext ==
  PaymentStep \/ UserStep \/ AuthStep \/ CatalogStep \/ AdsStep \/ ReviewStep

vars == <<service, auths, userVars, authVars, catalogVars, adVars, reviewVars>>

ServicesSpec == ServicesInit /\ [][ServicesNext]_vars

-----------------------------------------------------------------------------
\* Every service keeps its state within its types, the balances of campaigns above
\* zero and the room for one in each table of the catalog among them.
ServicesTypeOK == /\ TypeOK /\ UserTypeOK /\ AuthTypeOK /\ CatalogTypeOK
                  /\ AdService!TypeOK /\ Reviews!ReviewTypeOK

\* The properties of the services this module only instantiates, each evaluated on
\* the states of its own service.
SecondPriceAuction == [][service = "ads" => AdService!AuctionIsSecondPrice]_adVars
PagesPartition == service = "review" => Reviews!PagesPartition
PagesStay == [][service = "review" => Reviews!PagesKept]_reviewVars
PagesRight == service = "review" => Reviews!PagesRight

-----------------------------------------------------------------------------
(* Catalogs that calls to Admin have built: nothing yet; two hotels of which  *)
(* one has a room without a plan; one out of range whose price wraps; three    *)
(* near each other with their prices in another order than their names.        *)
Hotel(h, at, types, rate1, rate2) ==
  [hotel_id |-> h, at |-> at, room_types |-> types, rate |-> [r \in RoomType |->
     IF r = r1 THEN rate1 ELSE rate2]]

Seed(upserted) ==
  LET Known == {u.hotel_id : u \in upserted}
      Of(h) == CHOOSE u \in upserted : u.hotel_id = h
  IN  [hotels |-> [h \in HotelId |-> IF h \in Known THEN [known |-> TRUE, at |-> Of(h).at]
                                     ELSE Geography!NoPlace],
       profiles |-> [h \in HotelId |->
                       IF h \in Known THEN [name |-> "n", room_types |-> Of(h).room_types]
                       ELSE Profiles!NoProfile],
       plans |-> [k \in HotelId \X RoomType |->
                    IF k[1] \in Known THEN Of(k[1]).rate[k[2]] ELSE 0]]

MCSeeds ==
  {Seed({}),
   Seed({Hotel(h1, 0, <<r1, r2>>, 100, 200), Hotel(h2, 2, <<r1, r2>>, 200, 0)}),
   Seed({Hotel(h1, 0, <<r1, r2>>, 200, 100), Hotel(h2, 3, <<r1>>, 3000, 0)}),
   Seed({Hotel(h1, 0, <<r1>>, 200, 0), Hotel(h2, 2, <<r1>>, 100, 0),
         Hotel(h3, 1, <<r1>>, 150, 0)})}

MCUpsertHotelAsked ==
  [hotel_id : {h1, h2}, name : {"n", ""}, at : {0, 9}, room_types : {<<r2>>}]

MCSetRatePlanAsked == [hotel_id : {h1}, room_type : {r1}, nightly_rate : {0, 300}]

\* A search that is refused, and one for a stay of each kind: short, and longer than
\* MaxNights.
MCSearchRequest ==
  [at : {0}, radius : {0, 2}, check_in : {1}, check_out : {3}, guests : {1}]
    \cup [at : {0}, radius : {2}, check_in : {1}, check_out : {6}, guests : {1}]
=============================================================================
