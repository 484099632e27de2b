---------------------------- MODULE UrlShortener ----------------------------
(***************************************************************************)
(* 01_url_shortener: POST /shorten, GET /stats/:code and GET /:code over   *)
(* the InMemoryStore of cache.ts.  The store's promises resolve before the *)
(* next request is read, so a handler runs to its end; with Redis as the   *)
(* store, commands of other requests would come in between.  A time to     *)
(* live is in seconds, the clock counts ticks of which Second are one.     *)
(***************************************************************************)
EXTENDS Integers

CONSTANTS
    Code, Url, NoEntry,
    Ttls,                      \* what clients ask for; 0 stands for none, too
    DefaultTTL, MaxTTL, Second

ShortenerAssumption ==
    /\ NoEntry \notin [url : Url, left : Int] \cup [code : Code, url : Url, left : Int]
    /\ Ttls \subseteq Int /\ {DefaultTTL, MaxTTL} \subseteq Nat /\ Second \in Nat \ {0}

VARIABLES
    urls,   \* the store: url and what is left of its time; -1 once over
    issued  \* history: the codes clients were told, till the last second of their time

urlVars == <<urls, issued>>

TypeOK ==
    /\ \A c \in Code : urls[c] = NoEntry \/ urls[c] \in [url : Url, left : Int]
    /\ \A i \in issued : i \in [code : Code, url : Url, left : Nat]

Init == urls = [c \in Code |-> NoEntry] /\ issued = {}

-----------------------------------------------------------------------------
(* Plausible slips in the code, used to show that the properties bite. *)
AnyCode(c) == TRUE

Over(e) == e.left < 0
Exists(c) == urls[c] # NoEntry /\ ~Over(urls[c])
EffectiveTtl(ttl) == IF ttl # 0 /\ ttl < MaxTTL THEN ttl ELSE DefaultTTL

(* Reading a code whose time is over deletes it. *)
Swept(c) == [urls EXCEPT ![c] = IF Exists(c) THEN @ ELSE NoEntry]

(* set() with EX. *)
Entry(url, ttl) == [url |-> url, left |-> Second * EffectiveTtl(ttl)]

(* Of up to four codes drawn the first that is free gets the URL. *)
Free(c) == ~Exists(c)
Told(c, e) == {[code |-> c, url |-> e.url, left |-> e.left]}
Shorten(c, url, ttl) ==
    /\ Free(c)
    /\ LET e == Entry(url, ttl)
       IN /\ urls' = [urls EXCEPT ![c] = e]
          /\ issued' = IF e.left >= Second THEN issued \cup Told(c, e) ELSE issued

(* ttl() rounds to whole seconds and deletes what has none left. *)
NoSeconds(e) == e.left < Second
Stats(c) ==
    /\ urls' = IF Exists(c) /\ NoSeconds(urls[c]) THEN [urls EXCEPT ![c] = NoEntry] ELSE Swept(c)
    /\ UNCHANGED issued

Redirect(c) == urls' = Swept(c) /\ UNCHANGED issued

Older(e) == IF e = NoEntry \/ Over(e) THEN e ELSE [e EXCEPT !.left = @ - 1]
Tick ==
    /\ urls' = [c \in Code |-> Older(urls[c])]
    /\ issued' = {Older(i) : i \in {j \in issued : j.left > Second}}

Next ==
    \/ Tick
    \/ \E c \in Code :
        \/ Stats(c) \/ Redirect(c)
        \/ \E url \in Url, ttl \in Ttls : Shorten(c, url, ttl)

-----------------------------------------------------------------------------
(* A code a client was told of leads to its URL till the last second of its *)
(* time: no other request takes the code over and no read deletes it.  (In  *)
(* the last second GET /stats/:code does.)                                  *)
LinksHold == \A i \in issued : urls[i.code] = [url |-> i.url, left |-> i.left]
=============================================================================
