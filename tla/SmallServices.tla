---------------------------- MODULE SmallServices ----------------------------
(***************************************************************************)
(* The small programs of the repository that share no state, explored one  *)
(* at a time: part says which of them a behaviour is of, the others stay   *)
(* in their initial states.                                                *)
(***************************************************************************)
EXTENDS Integers, Sequences

CONSTANTS
    None, NoData,
    Request, KeyOf, MaxRetries,                  \* Checkout
    Order, MaxSends,                             \* Delivery, and EventStore's orders
    Node, MaxEvents,                             \* LogicalClocks
    Amount, Time, MaxLog,                        \* EventStore
    Id, CacheSize, FreshTTL, StaleLimit, Latency, MaxFetches,  \* SWRServer and EdgeCache
    Window, Limit, Costs, MaxFailures,           \* WindowLimiters
    Code, Url, NoEntry, Ttls, DefaultTTL, MaxTTL, Second,      \* UrlShortener
    Servers, MaxQueueSize,                       \* LoadBalancer
    Posts, Score, TopN, PageSize                 \* Feed

VARIABLES
    part,
    store, stage, status, held, charged, attempt, reply,
    orders, outbox, processed, applied, dedupe, sends, acknowledged, queueSeen, queueApplied,
    time, wire, past, events,
    log, view, audit,
    entries, answer, fetches, owed,
    kind, tokens, elapsed, times, count, ttl, expiring, granted, failed,
    urls, issued,
    edgeCache, edgeFetches, edgeOwed,
    policy, currentIndex, queue, lead, spilled,
    feed, cursor, hasMore, fresh, seen, breaks

Pay == INSTANCE Checkout
Deliver == INSTANCE Delivery
Clocks == INSTANCE LogicalClocks
Store == INSTANCE EventStore
SWR == INSTANCE SWRServer
Limiter == INSTANCE WindowLimiters
Links == INSTANCE UrlShortener
Edge == INSTANCE EdgeCache
Balancer == INSTANCE LoadBalancer
Timeline == INSTANCE Feed

ASSUME PartsAssumption ==
    /\ Pay!CheckoutAssumption /\ Deliver!DeliveryAssumption /\ Clocks!ClocksAssumption
    /\ Store!EventsAssumption /\ SWR!SWRAssumption
    /\ Limiter!WindowAssumption /\ Links!ShortenerAssumption
    /\ Balancer!BalancerAssumption /\ Timeline!FeedAssumption

checkoutVars == <<store, stage, status, held, charged, attempt, reply>>
deliveryVars == <<orders, outbox, processed, applied, dedupe, sends, acknowledged,
                  queueSeen, queueApplied>>
clockVars == <<time, wire, past, events>>
eventVars == <<log, view, audit>>
swrVars == <<entries, answer, fetches, owed>>
limiterVars == <<kind, tokens, elapsed, times, count, ttl, expiring, granted, failed>>
urlVars == <<urls, issued>>
edgeVars == <<edgeCache, edgeFetches, edgeOwed>>
balancerVars == <<policy, currentIndex, queue, lead, spilled>>
feedVars == <<feed, cursor, hasMore, fresh, seen, breaks>>
vars == <<part, checkoutVars, deliveryVars, clockVars, eventVars, swrVars,
          limiterVars, urlVars, edgeVars, balancerVars, feedVars>>

(* Each part has the types its module states. *)
TypeOK ==
    /\ Pay!TypeOK /\ Deliver!TypeOK /\ Clocks!TypeOK
    /\ Store!TypeOK /\ SWR!TypeOK /\ Limiter!TypeOK /\ Links!TypeOK
    /\ Edge!TypeOK /\ Balancer!TypeOK /\ Timeline!TypeOK

Init ==
    /\ part \in {"checkout", "delivery", "clocks", "event store",
                 "swr", "limiters", "links", "edge", "balancer", "feed"}
    /\ Pay!Init /\ Deliver!Init /\ Clocks!Init
    /\ Store!Init /\ SWR!Init /\ Limiter!Init /\ Links!Init
    /\ Edge!Init /\ Balancer!Init /\ Timeline!Init
    /\ part # "limiters" => kind = "bucket"
    /\ part # "balancer" => policy = "round robin"

Next ==
    /\ UNCHANGED part
    /\ \/ /\ part = "checkout" /\ Pay!Next
          /\ UNCHANGED <<deliveryVars, clockVars, eventVars, swrVars,
                         limiterVars, urlVars, edgeVars, balancerVars, feedVars>>
       \/ /\ part = "delivery" /\ Deliver!Next
          /\ UNCHANGED <<checkoutVars, clockVars, eventVars, swrVars,
                         limiterVars, urlVars, edgeVars, balancerVars, feedVars>>
       \/ /\ part = "clocks" /\ Clocks!Next
          /\ UNCHANGED <<checkoutVars, deliveryVars, eventVars, swrVars,
                         limiterVars, urlVars, edgeVars, balancerVars, feedVars>>
       \/ /\ part = "event store" /\ Store!Next
          /\ UNCHANGED <<checkoutVars, deliveryVars, clockVars, swrVars,
                         limiterVars, urlVars, edgeVars, balancerVars, feedVars>>
       \/ /\ part = "swr" /\ SWR!Next
          /\ UNCHANGED <<checkoutVars, deliveryVars, clockVars, eventVars,
                         limiterVars, urlVars, edgeVars, balancerVars, feedVars>>
       \/ /\ part = "limiters" /\ Limiter!Next
          /\ UNCHANGED <<checkoutVars, deliveryVars, clockVars, eventVars,
                         swrVars, urlVars, edgeVars, balancerVars, feedVars>>
       \/ /\ part = "links" /\ Links!Next
          /\ UNCHANGED <<checkoutVars, deliveryVars, clockVars, eventVars,
                         swrVars, limiterVars, edgeVars, balancerVars, feedVars>>
       \/ /\ part = "edge" /\ Edge!Next
          /\ UNCHANGED <<checkoutVars, deliveryVars, clockVars, eventVars,
                         swrVars, limiterVars, urlVars, balancerVars, feedVars>>
       \/ /\ part = "balancer" /\ Balancer!Next
          /\ UNCHANGED <<checkoutVars, deliveryVars, clockVars, eventVars,
                         swrVars, limiterVars, urlVars, edgeVars, feedVars>>
       \/ /\ part = "feed" /\ Timeline!Next
          /\ UNCHANGED <<checkoutVars, deliveryVars, clockVars, eventVars,
                         swrVars, limiterVars, urlVars, edgeVars, balancerVars>>

Spec == Init /\ [][Next]_vars

-----------------------------------------------------------------------------
(* The properties of the parts; each part's module says what it means. *)
OneTrueOutcomePerKey == Pay!OneTrueOutcomePerKey
ExactlyOnce == Deliver!ExactlyOnce
ClockCondition == Clocks!ClockCondition
ReplayAgrees == Store!ReplayAgrees
TimeTravel == Store!TimeTravel
RefreshInTime == SWR!RefreshInTime /\ Edge!RefreshInTime
WindowBound == Limiter!WindowBound
LinksHold == Links!LinksHold
SpreadsLoad == Balancer!SpreadsLoad
PagesComplete == Timeline!PagesComplete
=============================================================================
