---------------------------------- MODULE Ads ----------------------------------
(***************************************************************************)
(* The advertising bidder: campaigns with a bid and a remaining budget,    *)
(* and a second-price auction that fills sponsored slots and charges the   *)
(* winners.  One mutex makes every RPC one step.  LogImpression and        *)
(* LogClick change nothing.                                                *)
(*                                                                         *)
(* Campaign n is "camp-n" in the code, which breaks ties between bids by   *)
(* comparing these strings; up to nine campaigns that is the order of n.   *)
(***************************************************************************)
EXTENDS Integers, Sequences, FiniteSets, SequencesExt

CONSTANTS Bid, Budget,   \* what requests of SetCampaign ask for
          MaxCampaigns,  \* bound on the campaigns that are created
          MaxSlots       \* the largest slot_count of a request

\* What a module that instantiates this one assumes of the constants.
AdsAssumption == /\ Bid \subseteq Int /\ Budget \subseteq Int
                 /\ MaxCampaigns \in 1 .. 9 /\ MaxSlots \in Nat

VARIABLES campaigns,  \* campaigns[n]: the campaign with id n
          slots       \* the last answer of SelectSponsored

vars == <<campaigns, slots>>

Campaign == [bid : Bid, remaining : Nat]

\* The messages; an unset number reads as 0.
SetCampaignRequest == [bid : Bid, budget : Budget]
SelectSponsoredRequest == [slot_count : 0 .. MaxSlots]

\* The SponsoredSlot of the answer: its hotel is that of its campaign.
Slot == [campaign : 1 .. MaxCampaigns, price : Bid]

TypeOK == /\ campaigns \in Seq(Campaign) /\ Len(campaigns) <= MaxCampaigns
          /\ slots \in Seq(Slot)

Init == campaigns = <<>> /\ slots = <<>>

-----------------------------------------------------------------------------
SetCampaign(bid, budget) ==
  /\ bid > 0 /\ budget > 0
  /\ Len(campaigns) < MaxCampaigns
  /\ campaigns' = Append(campaigns, [bid |-> bid, remaining |-> budget])
  /\ UNCHANGED slots

Eligible == {n \in DOMAIN campaigns : campaigns[n].remaining > 0}

Before(m, n) == \/ campaigns[m].bid > campaigns[n].bid
                \/ campaigns[m].bid = campaigns[n].bid /\ m < n

\* Mutant: everybody pays the own bid.
PriceFirst(ranked, i) == campaigns[ranked[i]].bid

\* The next bid of the ranking, also of a bidder that cannot afford anything.
Price(ranked, i) == campaigns[ranked[IF i < Len(ranked) THEN i + 1 ELSE i]].bid

\* Mutant: nobody asks whether the winner can afford the price.
FillAnyway(filled, ranked, i, count) ==
  IF Len(filled) = count THEN filled
  ELSE Append(filled, [campaign |-> ranked[i], price |-> Price(ranked, i)])

\* One iteration of the loop: the slot goes to the bidder at position i, or,
\* if it cannot afford the price, is left to the next one.
Fill(filled, ranked, i, count) ==
  IF Len(filled) = count \/ campaigns[ranked[i]].remaining < Price(ranked, i)
  THEN filled
  ELSE Append(filled, [campaign |-> ranked[i], price |-> Price(ranked, i)])

\* The eligible campaigns, sorted.
Ranked == CHOOSE ranked \in SetToSeqs(Eligible) :
            \A i, j \in DOMAIN ranked : i < j => Before(ranked[i], ranked[j])

Auction(count) ==
  LET ranked == Ranked
  IN  FoldLeftDomain(LAMBDA filled, i : Fill(filled, ranked, i, count), <<>>, ranked)

Charged(n, filled) == {s \in ToSet(filled) : s.campaign = n}

SelectSponsored(count) ==
  /\ count > 0
  /\ slots' = Auction(count)
  /\ campaigns' = [n \in DOMAIN campaigns |->
                     [campaigns[n] EXCEPT !.remaining =
                        FoldSet(LAMBDA s, left : left - s.price, @, Charged(n, slots'))]]

Next == \/ \E m \in SetCampaignRequest : SetCampaign(m.bid, m.budget)
        \/ \E m \in SelectSponsoredRequest : SelectSponsored(m.slot_count)

Spec == Init /\ [][Next]_vars

-----------------------------------------------------------------------------
\* The answer lists the winners by falling bid, no campaign twice, and nobody
\* pays more than the own bid, whatever the others can afford.
SlotsInOrder ==
  \A i, j \in DOMAIN slots :
    /\ slots[i].price <= campaigns[slots[i].campaign].bid
    /\ i < j => /\ slots[i].campaign # slots[j].campaign
                /\ campaigns[slots[i].campaign].bid >= campaigns[slots[j].campaign].bid

\* The outcome of the auction without its loop: each eligible campaign is due
\* the highest bid ranked below it, or its own if it is last; the winners are
\* the first count of those that can pay what is due; they, and nobody else,
\* pay exactly that.
Below(n) == {m \in Eligible : Before(n, m)}

Due(n) == IF Below(n) = {} THEN campaigns[n].bid
          ELSE CHOOSE b \in {campaigns[m].bid : m \in Below(n)} :
                 \A m \in Below(n) : campaigns[m].bid <= b

Payers == {n \in Eligible : campaigns[n].remaining >= Due(n)}

Winners(count) ==
  {n \in Payers : Cardinality({m \in Payers : Before(m, n)}) < count}

SecondPrice(count) ==
  /\ ToSet(slots') = {[campaign |-> n, price |-> Due(n)] : n \in Winners(count)}
  /\ \A n \in DOMAIN campaigns :
       campaigns[n].remaining - campaigns'[n].remaining
         = IF n \in Winners(count) THEN Due(n) ELSE 0

\* Every SelectSponsored is the second-price auction the service promises, and
\* answers in order.
AuctionIsSecondPrice ==
  \A count \in 1 .. MaxSlots :
    SelectSponsored(count) => SecondPrice(count) /\ SlotsInOrder'

SecondPriceAuction == [][AuctionIsSecondPrice]_vars
=============================================================================
