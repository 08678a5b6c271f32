--------------------------------- MODULE Review --------------------------------
(***************************************************************************)
(* The reviews of a hotel in the order they were posted, read in pages     *)
(* whose bounds the code computes in int32.  One mutex makes every RPC one *)
(* step.  The text of a review is left out.                                *)
(***************************************************************************)
EXTENDS Integers, Sequences, FiniteSetsExt, SequencesExt

CONSTANTS HotelId, Reviewer,
          Rating,      \* what requests of PostReview give, also outside 1 .. 5
          MaxInt32,    \* the largest int32
          MaxReviews   \* bound on the reviews posted, at most half of the range
                       \* of int32: memory ends long before 2^30 reviews

\* What a module that instantiates this one assumes of the constants.
ReviewAssumption == /\ Rating \subseteq Int /\ "" \notin HotelId \cup Reviewer
                    /\ MaxInt32 \in Nat
                    /\ MaxReviews \in 0 .. (MaxInt32 + 1) \div 2

VARIABLES reviews,  \* reviews[h]: the reviews of h in post order
          seq       \* the last review id given out, of "rv-<seq>"

reviewVars == <<reviews, seq>>

\* The messages; an unset field reads as "" or 0.
ReviewRecord == [review_id : Nat, hotel_id : HotelId, user_id : Reviewer,
                 rating : 1 .. 5]
PostReviewRequest ==
  [hotel_id : HotelId \cup {""}, user_id : Reviewer \cup {""}, rating : Rating]
ListReviewsRequest ==
  [hotel_id : HotelId, page : 0 .. MaxInt32, page_size : 0 .. MaxInt32]
ListReviewsResponse(page, total) == [reviews |-> page, total_count |-> total]
\* The code divides the sum by review_count, and answers 0 if there is no review.
GetAggregateResponse(count, sum) == [review_count |-> count, sum |-> sum]

ReviewTypeOK == /\ reviews \in [HotelId -> Seq(ReviewRecord)]
                /\ seq \in 0 .. MaxReviews

ReviewInit == reviews = [h \in HotelId |-> <<>>] /\ seq = 0

-----------------------------------------------------------------------------
NewReview(id, req) == [review_id |-> id, hotel_id |-> req.hotel_id,
                       user_id |-> req.user_id, rating |-> req.rating]

\* Mutant: the newest review comes first.
PostReviewFirst(req) ==
  /\ req.hotel_id # "" /\ req.user_id # "" /\ req.rating \in 1 .. 5
  /\ seq < MaxReviews
  /\ seq' = seq + 1
  /\ reviews' = [reviews EXCEPT ![req.hotel_id] =
                   <<NewReview(seq', req)>> \o @]

PostReview(req) ==
  /\ req.hotel_id # "" /\ req.user_id # "" /\ req.rating \in 1 .. 5
  /\ seq < MaxReviews
  /\ seq' = seq + 1
  /\ reviews' = [reviews EXCEPT ![req.hotel_id] =
                   Append(@, NewReview(seq', req))]

\* int32 arithmetic.
Int32Of(x) == ((x + MaxInt32 + 1) % (2 * (MaxInt32 + 1))) - (MaxInt32 + 1)

Start(req) == Int32Of((req.page - 1) * req.page_size)

\* Mutant: the end of the page counts from 1.
EndOneShort(req) ==
  LET end == Int32Of(Start(req) + req.page_size - 1)
      total == Len(reviews[req.hotel_id])
  IN  IF end > total THEN total ELSE end

End(req) == LET end == Int32Of(Start(req) + req.page_size)
                total == Len(reviews[req.hotel_id])
            IN  IF end > total THEN total ELSE end

\* The slice expression all[start:end] (and make with its length) stops the
\* process unless the bounds are in order.
SlicePanics(req) == /\ Start(req) < Len(reviews[req.hotel_id])
                    /\ Start(req) < 0 \/ End(req) < Start(req)

CanList(req) == req.page >= 1 /\ req.page_size >= 1

\* The reviews a ListReviews answers with, if it answers.
ListReviews(req) ==
  LET all == reviews[req.hotel_id]
  IN  ListReviewsResponse(IF Start(req) >= Len(all) THEN <<>>
                          ELSE SubSeq(all, Start(req) + 1, End(req)), Len(all))

Ratings(all) == FoldLeft(LAMBDA sum, r : sum + r.rating, 0, all)

GetAggregate(h) == GetAggregateResponse(Len(reviews[h]), Ratings(reviews[h]))

ReviewNext == \E req \in PostReviewRequest : PostReview(req)

ReviewSpec == ReviewInit /\ [][ReviewNext]_reviewVars

-----------------------------------------------------------------------------
\* Page p of size n is the reviews after the first (p - 1) * n, at most n of them.
PageOf(all, page, size) ==
  SubSeq(all, (page - 1) * size + 1, Min({page * size, Len(all)}))

\* What SPEC.yaml says of ListReviews for every positive page and page_size: it
\* returns that page.
PageRight(req) ==
  /\ ~SlicePanics(req)
  /\ ListReviews(req).reviews = PageOf(reviews[req.hotel_id], req.page, req.page_size)

PagesRight == \A req \in ListReviewsRequest : CanList(req) => PageRight(req)

\* The pages are right as long as the first index of the page fits an int32, and
\* a reader that goes from page to page sees what GetAggregate counts.
PagesPartition ==
  /\ \A req \in ListReviewsRequest :
       CanList(req) /\ (req.page - 1) * req.page_size <= MaxInt32 => PageRight(req)
  /\ \A h \in HotelId, n \in 1 .. MaxInt32 :
       LET pages == {ListReviews([hotel_id |-> h, page |-> p, page_size |-> n]) :
                       p \in {q \in 1 .. MaxInt32 : (q - 1) * n <= MaxInt32}}
           listed == {answer.reviews : answer \in pages}
       IN  /\ GetAggregate(h) = GetAggregateResponse(MapThenSumSet(Len, listed),
                                                     MapThenSumSet(Ratings, listed))
           /\ \A answer \in pages : answer.total_count = GetAggregate(h).review_count

\* A reader that pages while others post misses nothing and sees nothing twice:
\* what is on a page stays there, and a full page never changes.
PagesKept ==
  \A req \in ListReviewsRequest :
    CanList(req) /\ (req.page - 1) * req.page_size <= MaxInt32
      => IsPrefix(ListReviews(req).reviews, ListReviews(req).reviews')

PagesStay == [][PagesKept]_reviewVars

=============================================================================
