SPECIFICATION ServicesSpec
CONSTANTS
  Services = {"review"}
  \* payment
  AuthId = {a1, a2}
  MaxAmount = 3
  Restarts = TRUE
  \* user
  UserId = {u1}
  Currency = {"", "EUR"}
  Locale = {"", "de"}
  Accrual = {c1, c2, c3}
  BookingAmount = {0, 99, 250}
  MaxPoints = 3
  \* auth
  Email = {e1, e2}
  Password = {p1, p2}
  RefreshToken = {t1, t2}
  TokenLifetime = 2
  MaxTime = 3
  MaxTokens = 3
  \* catalog
  h1 = h1
  h2 = h2
  h3 = h3
  r1 = r1
  r2 = r2
  HotelId = {h1, h2, h3}
  Name = {"n"}
  RoomType = {r1, r2}
  MaxCoord = 8
  MaxInt64 = 4095
  MaxNights = 3
  AdminCall = {m1, m2}
  UpsertHotelAsked <- MCUpsertHotelAsked
  SetRatePlanAsked <- MCSetRatePlanAsked
  SearchRequest <- MCSearchRequest
  Seeds <- MCSeeds
  MaxLost = 1
  \* ads
  Bid = {0, 1, 2, 3}
  Budget = {0, 1, 3}
  MaxCampaigns = 4
  MaxSlots = 3
  \* review
  Reviewer = {g1}
  Rating = {0, 1, 5, 6}
  MaxInt32 = 7
  MaxReviews = 4
INVARIANTS
  PagesRight
CHECK_DEADLOCK FALSE
