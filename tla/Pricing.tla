-------------------------------- MODULE Pricing --------------------------------
(***************************************************************************)
(* The nightly rates, in memory, and the price of a stay in minor units.   *)
(* The currency of a rate is left out: nobody calculates with it.          *)
(***************************************************************************)
EXTENDS Integers

CONSTANTS HotelId, RoomType,
          MaxInt64,  \* the largest int64
          MaxNights  \* the whole days of the longest time.Duration, 106751

VARIABLE plans       \* plans[<<h, r>>]: the nightly rate, 0 if there is no plan

TypeOK == plans \in [HotelId \X RoomType -> 0 .. MaxInt64]

Empty == [k \in HotelId \X RoomType |-> 0]

-----------------------------------------------------------------------------
\* The messages.
SetRatePlanRequest(h, r, rate) == [hotel_id |-> h, room_type |-> r, nightly_rate |-> rate]

QuoteRequest(h, r, stay) ==
  [hotel_id |-> h, room_type |-> r, check_in |-> stay.check_in,
   check_out |-> stay.check_out, guests |-> stay.guests]

CanSetRatePlan(req) ==
  req.hotel_id # "" /\ req.room_type # "" /\ req.nightly_rate > 0

SetRatePlan(req) ==
  /\ CanSetRatePlan(req)
  /\ plans' = [plans EXCEPT ![<<req.hotel_id, req.room_type>>] = req.nightly_rate]

CanQuote(req) == /\ req.guests > 0
                 /\ req.check_in < req.check_out
                 /\ plans[<<req.hotel_id, req.room_type>>] # 0

\* int64 arithmetic.
Wrap(x) == ((x + MaxInt64 + 1) % (2 * (MaxInt64 + 1))) - (MaxInt64 + 1)

\* Go's integer division cuts towards zero.
Tenth(x) == IF x < 0 THEN -((-x) \div 10) ELSE x \div 10

FlatBookingFee == 1500

QuoteResponse(rate, nights, subtotal, fees) ==
  [nightly_rate |-> rate, nights |-> nights, subtotal |-> subtotal,
   taxes |-> Tenth(subtotal), fees |-> fees,
   total |-> Wrap(subtotal + Tenth(subtotal) + fees)]

\* time.Time.Sub stops at the longest Duration.
Nights(req) == LET days == req.check_out - req.check_in
               IN  IF days > MaxNights THEN MaxNights ELSE days

Quote(req) == LET rate == plans[<<req.hotel_id, req.room_type>>]
              IN  QuoteResponse(rate, Nights(req), Wrap(rate * Nights(req)), FlatBookingFee)

Restart == plans' = Empty
=============================================================================
