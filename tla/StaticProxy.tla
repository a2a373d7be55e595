---------------------------- MODULE StaticProxy ----------------------------
(***************************************************************************)
(* The catch-all handler that serves the static site from its origins      *)
(* through the cache (internal/static/proxy.go): concurrent requests, one  *)
(* shared fetch per key, failover along the origins, stale answers while   *)
(* none is reachable, callers that leave.                                  *)
(*                                                                         *)
(* A gin context is an object that the framework hands to the next request *)
(* once its handler has returned; `ctx[c].key' and `ctx[c].meth' are       *)
(* c.Request, which stays what it was until then.                          *)
(***************************************************************************)
EXTENDS StaticCache

CONSTANTS
  Key,          \* cache keys: host, path and query of a request
  Request,      \* the requests that may arrive, <<key, method>>
  Context,      \* gin contexts
  Flight,       \* goroutines of shared fetches (bound: fetches at one time)
  None,         \* not a flight
  Origins,      \* number of origins, in failover order
  Content,      \* per key, the sequence of the replies the origins give as it is published
  Ttl,          \* STATIC cache TTL for replies without a usable directive
  MaxPublished, \* bound: publications
  MaxRequests,  \* bound: requests that arrive
  MaxGiveUps,   \* bound: callers that leave before their fetch returns
  MaxClock      \* bound: the clock

ASSUME FlightAssumption == None \notin Flight
ASSUME RequestAssumption == Request \subseteq Key \X {"GET", "HEAD"}
ASSUME ContentAssumption ==
  /\ Content \in [Key -> Seq([status : Nat, cc : Seq(STRING \X Int), size : Nat, large : BOOLEAN])]
  /\ \A k \in Key : Content[k] # <<>>
ASSUME BoundsAssumption == Ttl \in Nat /\ Origins \in Nat

VARIABLES
  cache,     \* p.cache
  ctx,       \* handlers
  group,     \* the shared fetch that a new caller for a key joins
  flight,    \* shared fetches
  site,      \* version of each key's content at the origins
  now,
  out,       \* the response the last step wrote, if it wrote one
  arrived,   \* requests so far
  left,      \* callers that gave up so far
  seen,      \* history: newest cacheable version a GET was answered with
  strayed    \* history: keys whose fetch was started on a recycled context

vars == <<cache, ctx, group, flight, site, now, out, arrived, left, seen, strayed>>

Absent == -1

(***************************************************************************)
(* Content[k][v] is the reply for version v of key k, a record             *)
(* [status, cc, size, large]: cc is the sequence of                        *)
(* Cache-Control directives <<name, seconds>>, the seconds Absent when the *)
(* argument is missing or malformed; large exceeds maxObjectBytes.         *)
(***************************************************************************)

\* parseCacheControl: a later directive wins unless it is malformed.
Directive(cc, name) == \E i \in DOMAIN cc : cc[i][1] = name
Seconds(cc, name) ==
  LET valid == {i \in DOMAIN cc : cc[i][1] = name /\ cc[i][2] >= 0}
  IN IF valid = {} THEN Absent ELSE cc[Max(valid)][2]

\* cacheTTL: the lifetime, Absent when the reply may not be stored.
CacheTTL(cc) ==
  CASE Directive(cc, "no-store") -> Absent
    [] Directive(cc, "no-cache") -> 0
    [] Seconds(cc, "s-maxage") >= 0 -> Seconds(cc, "s-maxage")
    [] Seconds(cc, "max-age") >= 0 -> Seconds(cc, "max-age")
    [] OTHER -> Ttl

\* buffer(): only a 200 that may be stored is.
Storable(reply) == reply.status = 200 /\ CacheTTL(reply.cc) # Absent

\* What the origins serve for a key now.
Reply(k) == Content[k][site[k]]

\* buffer(): the entry made of the reply for a key.
Buffer(k, meth) ==
  LET reply == Reply(k) IN
  [key |-> k, meth |-> meth, ver |-> site[k], status |-> reply.status, size |-> reply.size,
   storable |-> Storable(reply),
   expires |-> IF Storable(reply) THEN now + CacheTTL(reply.cc) ELSE 0]

NoEntry == [key |-> None]
NoOut == [label |-> "none"]

\* A handler with nothing fetched, and a goroutine that has fetched nothing.
At(pc, meth, k, floor) ==
  [pc |-> pc, meth |-> meth, key |-> k, fl |-> None, at |-> 1, got |-> "none", floor |-> floor,
   entry |-> NoEntry]
Launched(pc, k, c) ==
  [pc |-> pc, key |-> k, starter |-> c, meth |-> "GET", path |-> None, at |-> 0, result |-> "none",
   entry |-> NoEntry]
Idle == At("idle", "GET", None, 0)
NoFlight == Launched("free", None, None)

Init ==
  /\ cache = NewCache
  /\ ctx = [c \in Context |-> Idle]
  /\ group = [k \in Key |-> None]
  /\ flight = [f \in Flight |-> NoFlight]
  /\ site = [k \in Key |-> 1]
  /\ now = 0 /\ out = NoOut /\ arrived = 0 /\ left = 0
  /\ seen = [k \in Key |-> 0]
  /\ strayed = {}

\* get(): an entry that expires at this instant is expired.
Fresh(k) == Has(cache, k) /\ cache.items[k].expires > now

\* History: content that the cache can hold, taken from it or from a shared fetch.
See(k, meth, label, e) ==
  IF /\ meth = "GET" /\ label \in {"HIT", "MISS"} /\ e.key = k /\ e.ver > seen[k]
     /\ e.storable /\ e.size <= MaxBytes
  THEN [seen EXCEPT ![k] = e.ver] ELSE seen

\* A response to a request for k that arrived when seen[k] was floor.
Respond(k, meth, floor, label, e) ==
  /\ out' = [key |-> k, meth |-> meth, floor |-> floor, label |-> label, entry |-> e]
  /\ seen' = See(k, meth, label, e)

Quiet == out' = NoOut

\* A recycled context, whose c.Request matters as long as a goroutine will read it.
Recycled(c, k, meth) ==
  IF \E f \in Flight : flight[f].starter = c THEN At("idle", meth, k, 0) ELSE Idle

\* The end of a handler; the context may be recycled from here on.
Answer(c, label, e) ==
  /\ Respond(ctx[c].key, ctx[c].meth, ctx[c].floor, label, e)
  /\ ctx' = [ctx EXCEPT ![c] = Recycled(c, ctx[c].key, ctx[c].meth)]

Goto(c, pc) ==
  /\ Quiet
  /\ ctx' = [ctx EXCEPT ![c] = At(pc, ctx[c].meth, ctx[c].key, ctx[c].floor)]
  /\ UNCHANGED seen

\* Faulty variant of OnMiss: a HEAD shares the fetch of a GET.
OnMissShared(meth) == "join"

\* A GET that finds nothing fresh goes to the shared fetch, a HEAD past it.
OnMiss(meth) == IF meth = "GET" THEN "join" ELSE "stream"

\* handler(), serveGet() and serveHead() up to the first look into the cache.
\* Other methods are answered 404 without touching anything.
Handle(c, k, meth) ==
  /\ ctx[c].pc = "idle" /\ arrived < MaxRequests
  /\ arrived' = arrived + 1
  /\ cache' = Touch(cache, k)
  /\ \/ /\ Fresh(k)
        /\ Respond(k, meth, seen[k], "HIT", cache.items[k])
        /\ ctx' = [ctx EXCEPT ![c] = Recycled(c, k, meth)]
     \/ /\ ~Fresh(k)
        /\ Quiet /\ UNCHANGED seen
        /\ ctx' = [ctx EXCEPT ![c] = At(OnMiss(meth), meth, k, seen[k])]
  /\ UNCHANGED <<group, flight, site, now, left, strayed>>

FreeFlight == CHOOSE f \in Flight : flight[f].pc = "free"

\* go doCall(): a goroutine for the fetch that c asks for.
Go(c) ==
  /\ \E f \in Flight : flight[f].pc = "free"
  /\ flight' = [flight EXCEPT ![FreeFlight] = Launched("queued", ctx[c].key, c)]
  /\ group' = [group EXCEPT ![ctx[c].key] = FreeFlight]
  /\ ctx' = [ctx EXCEPT ![c].pc = "wait", ![c].fl = FreeFlight]

\* Faulty variant of DoChan: every caller fetches for itself.
DoChanAlone(c) ==
  /\ ctx[c].pc = "join"
  /\ Go(c)
  /\ Quiet /\ UNCHANGED <<cache, site, now, arrived, left, seen, strayed>>

\* group.DoChan(): joins the fetch in progress for the key or starts one.
DoChan(c) ==
  /\ ctx[c].pc = "join"
  /\ \/ /\ group[ctx[c].key] # None
        /\ ctx' = [ctx EXCEPT ![c].pc = "wait", ![c].fl = group[ctx[c].key]]
        /\ UNCHANGED <<group, flight>>
     \/ group[ctx[c].key] = None /\ Go(c)
  /\ Quiet /\ UNCHANGED <<cache, site, now, arrived, left, seen, strayed>>

\* The goroutine runs: only now does it read c.Request of its starter.
FetchStart(f) ==
  LET c == flight[f].starter IN
  /\ flight[f].pc = "queued"
  /\ flight' = [flight EXCEPT ![f].pc = "fetch", ![f].at = 1, ![f].starter = None,
                              ![f].meth = ctx[c].meth, ![f].path = ctx[c].key]
  /\ strayed' = IF ctx[c].fl = f THEN strayed ELSE strayed \cup {flight[f].key}
  /\ Quiet /\ UNCHANGED <<cache, ctx, group, site, now, arrived, left, seen>>

\* fetch(): an error, a timeout, 502, 504 or an unreadable body moves on to the
\* next origin; after the last one the fetch fails.
FetchFail(f) ==
  /\ flight[f].pc = "fetch"
  /\ flight' = IF flight[f].at < Origins
               THEN [flight EXCEPT ![f].at = @ + 1]
               ELSE [flight EXCEPT ![f].pc = "return", ![f].result = "unavailable"]
  /\ Quiet /\ UNCHANGED <<cache, ctx, group, site, now, arrived, left, seen, strayed>>

\* fetch(): the first usable reply is buffered; one too large ends the fetch.
FetchReply(f) ==
  /\ flight[f].pc = "fetch"
  /\ flight' = IF Reply(flight[f].path).large
               THEN [flight EXCEPT ![f].pc = "return", ![f].result = "large"]
               ELSE [flight EXCEPT ![f].pc = "put", ![f].result = "entry",
                                   ![f].entry = Buffer(flight[f].path, flight[f].meth)]
  /\ Quiet /\ UNCHANGED <<cache, ctx, group, site, now, arrived, left, seen, strayed>>

\* The closure of serveGet(): a storable entry goes under the starter's key.
FetchPut(f) ==
  /\ flight[f].pc = "put"
  /\ cache' = IF flight[f].entry.storable THEN Put(cache, flight[f].key, flight[f].entry) ELSE cache
  /\ flight' = [flight EXCEPT ![f].pc = "return"]
  /\ Quiet /\ UNCHANGED <<ctx, group, site, now, arrived, left, seen, strayed>>

\* Faulty variant of FetchReturn: the key is forgotten, its waiters are not told.
FetchReturnLoses(f) ==
  /\ flight[f].pc = "return"
  /\ flight' = [flight EXCEPT ![f] = NoFlight]
  /\ group' = [k \in Key |-> IF group[k] = f THEN None ELSE group[k]]
  /\ Quiet /\ UNCHANGED <<cache, ctx, site, now, arrived, left, seen, strayed>>

\* singleflight: the key is free for the next fetch, and every waiter finds the
\* result in its channel.
FetchReturn(f) ==
  /\ flight[f].pc = "return"
  /\ flight' = [flight EXCEPT ![f] = NoFlight]
  /\ group' = [k \in Key |-> IF group[k] = f THEN None ELSE group[k]]
  /\ ctx' = [c \in Context |->
               IF ctx[c].fl = f
               THEN [ctx[c] EXCEPT !.fl = None, !.got = flight[f].result, !.entry = flight[f].entry]
               ELSE ctx[c]]
  /\ Quiet /\ UNCHANGED <<cache, site, now, arrived, left, seen, strayed>>

\* serveResult()
ServeResult(c) ==
  /\ ctx[c].pc = "wait"
  /\ \/ ctx[c].got = "entry" /\ Answer(c, "MISS", ctx[c].entry)
     \/ ctx[c].got = "large" /\ Goto(c, "stream")
     \/ ctx[c].got = "unavailable" /\ Goto(c, "unavailable")
  /\ UNCHANGED <<cache, group, flight, site, now, arrived, left, strayed>>

\* The caller's context is done before the fetch: serveUnavailable().
GiveUp(c) ==
  /\ ctx[c].pc = "wait" /\ left < MaxGiveUps
  /\ left' = left + 1
  /\ Goto(c, "unavailable")
  /\ UNCHANGED <<cache, group, flight, site, now, arrived, strayed>>

\* serveStream(): the origins in order, nothing stored.  Its answers carry MISS
\* as well; the label tells them from those of a shared fetch.
Stream(c) ==
  /\ ctx[c].pc = "stream"
  /\ \/ Answer(c, "STREAM", Buffer(ctx[c].key, ctx[c].meth))
     \/ /\ ctx[c].at < Origins
        /\ Quiet /\ UNCHANGED seen
        /\ ctx' = [ctx EXCEPT ![c].at = @ + 1]
     \/ /\ ctx[c].at = Origins
        /\ Goto(c, "unavailable")
  /\ UNCHANGED <<cache, group, flight, site, now, arrived, left, strayed>>

\* serveUnavailable(): a fresh entry ...
ServeUnavailable(c) ==
  LET k == ctx[c].key IN
  /\ ctx[c].pc = "unavailable"
  /\ cache' = Touch(cache, k)
  /\ IF Fresh(k) THEN Answer(c, "HIT", cache.items[k]) ELSE Goto(c, "stale")
  /\ UNCHANGED <<group, flight, site, now, arrived, left, strayed>>

\* ... else whatever is stored, else 502.
ServeStale(c) ==
  LET k == ctx[c].key IN
  /\ ctx[c].pc = "stale"
  /\ cache' = Touch(cache, k)
  /\ IF Has(cache, k) THEN Answer(c, "STALE", cache.items[k]) ELSE Answer(c, "502", NoEntry)
  /\ UNCHANGED <<group, flight, site, now, arrived, left, strayed>>

\* The site is published anew at the origins.
Publish(k) ==
  /\ site[k] < Len(Content[k])
  /\ MapThenSumSet(LAMBDA x : site[x] - 1, Key) < MaxPublished
  /\ site' = [site EXCEPT ![k] = @ + 1]
  /\ Quiet /\ UNCHANGED <<cache, ctx, group, flight, now, arrived, left, seen, strayed>>

Tick ==
  /\ now < MaxClock
  /\ now' = now + 1
  /\ Quiet /\ UNCHANGED <<cache, ctx, group, flight, site, arrived, left, seen, strayed>>

Handler(c) == DoChan(c) \/ ServeResult(c) \/ Stream(c) \/ ServeUnavailable(c) \/ ServeStale(c)
Fetch(f) == FetchStart(f) \/ FetchFail(f) \/ FetchReply(f) \/ FetchPut(f) \/ FetchReturn(f)

Next ==
  \/ \E c \in Context : \/ \E q \in Request : Handle(c, q[1], q[2])
                        \/ Handler(c)
                        \/ GiveUp(c)
  \/ \E f \in Flight : Fetch(f)
  \/ \E k \in Key : Publish(k)
  \/ Tick

Spec == Init /\ [][Next]_vars

(***************************************************************************)
(* Properties                                                              *)
(***************************************************************************)

\* Over replacements, evictions, responses larger than the budget and hits
\* that reorder it, the cache's byte count is the size of what it holds, within
\* MaxBytes, and its order and index list the same keys (cache.go, Cache).
BudgetKept == Consistent(cache)

\* A client that asks again does not go back in time: a GET that arrives after
\* another GET of the key was answered with cacheable content gets content at
\* least as new, unless its answer is marked STALE (or a fetch ran on a recycled
\* context).  Answers streamed past the cache do not count, nor do replies that
\* are not stored: these leave an older entry in place.  What makes it so is the shared fetch:
\* an older reply is stored before anyone can start a newer fetch for the key
\* (serveGet, singleflight).
MonotonicReads ==
  out.label \in {"HIT", "MISS"} /\ out.meth = "GET" /\ out.key \notin strayed
    => out.entry.key = out.key /\ out.entry.ver >= out.floor

\* A response is filed and answered under the key of another request only when
\* the caller that started the fetch had left before the goroutine began
\* (serveGet reads c.Request in the shared closure).
FiledUnderItsKey ==
  /\ \A k \in DOMAIN cache.items \ strayed : cache.items[k].key = k /\ cache.items[k].meth = "GET"
  /\ \A f \in Flight : flight[f].pc \in {"fetch", "put"} /\ flight[f].key \notin strayed
                         => flight[f].path = flight[f].key

\* A handler that waits has its result or is attached to the fetch of its key that
\* is still under way: nobody waits for a goroutine that has returned, whoever
\* started it and whoever left (serveGet's select, singleflight).
NoOrphan ==
  \A c \in Context : ctx[c].pc = "wait" /\ ctx[c].got = "none" =>
    /\ ctx[c].fl # None
    /\ flight[ctx[c].fl].pc # "free" /\ flight[ctx[c].fl].key = ctx[c].key

(***************************************************************************)
(* The inductive invariant behind NoOrphan, FiledUnderItsKey and           *)
(* MonotonicReads                                                          *)
(***************************************************************************)

Entry == [key : Key, meth : {"GET", "HEAD"}, ver : Nat, status : Nat, size : Nat,
          storable : BOOLEAN, expires : Int]
Results == {"none", "entry", "large", "unavailable"}

Handling ==
  [pc : {"idle", "join", "wait", "stream", "unavailable", "stale"}, meth : {"GET", "HEAD"},
   key : Key \cup {None}, fl : Flight \cup {None}, at : Nat, got : Results, floor : Nat,
   entry : Entry \cup {NoEntry}]
Fetching ==
  [pc : {"free", "queued", "fetch", "put", "return"}, key : Key \cup {None},
   starter : Context \cup {None}, meth : {"GET", "HEAD"}, path : Key \cup {None}, at : Nat,
   result : Results, entry : Entry \cup {NoEntry}]

TypeOK ==
  /\ DOMAIN cache.items \subseteq Key
  /\ \A k \in DOMAIN cache.items : cache.items[k] \in Entry
  /\ ctx \in [Context -> Handling]
  /\ group \in [Key -> Flight \cup {None}]
  /\ flight \in [Flight -> Fetching]
  /\ \A k \in Key : site[k] \in 1..Len(Content[k])
  /\ site \in [Key -> Nat] /\ seen \in [Key -> Nat]
  /\ now \in Nat /\ strayed \subseteq Key

\* A handler at work has a key; those of the shared fetch serve a GET, and one is
\* attached to a fetch only while it waits for its result.
Handlers ==
  \A c \in Context :
    /\ ctx[c].pc # "idle" => ctx[c].key \in Key
    /\ ctx[c].pc \in {"join", "wait"} => ctx[c].meth = "GET"
    /\ ctx[c].fl # None => ctx[c].pc = "wait" /\ ctx[c].got = "none"
    /\ ctx[c].got # "none" => ctx[c].pc = "wait"
    /\ ctx[c].got = "entry" => ctx[c].entry \in Entry

\* One shared fetch per key, and the map of the group knows it.
OneFetch ==
  /\ \A k \in Key : group[k] # None => flight[group[k]].pc # "free" /\ flight[group[k]].key = k
  /\ \A f \in Flight : flight[f].pc # "free" => flight[f].key \in Key /\ group[flight[f].key] = f

\* A fetch not begun has a starter whose request can be read; one begun has a path;
\* one with an entry has the entry.
Fetches ==
  \A f \in Flight :
    /\ flight[f].pc = "queued" => flight[f].starter \in Context /\ ctx[flight[f].starter].key \in Key
    /\ flight[f].pc = "fetch" => flight[f].path \in Key
    /\ flight[f].pc \in {"free", "queued", "fetch"} => flight[f].result = "none"
    /\ flight[f].pc = "put" => flight[f].result = "entry"
    /\ flight[f].pc = "return" => flight[f].result # "none"
    /\ flight[f].result = "entry" => flight[f].entry \in Entry

\* An entry for its own key, of a version published by now.
Own(k, e) == e.key = k /\ e.meth = "GET" /\ e.ver <= site[k]

\* No key but a strayed one is served what was fetched for another request.
OwnEntries ==
  /\ \A k \in DOMAIN cache.items \ strayed : Own(k, cache.items[k])
  /\ \A f \in Flight : flight[f].pc # "free" /\ flight[f].key \notin strayed =>
       /\ flight[f].pc \in {"fetch", "put"} => flight[f].path = flight[f].key /\ flight[f].meth = "GET"
       /\ flight[f].result = "entry" => Own(flight[f].key, flight[f].entry)
  /\ \A c \in Context : ctx[c].got = "entry" /\ ctx[c].key \notin strayed
                           => Own(ctx[c].key, ctx[c].entry)

Counted(e) == e.storable /\ e.size <= MaxBytes

\* What was seen is not newer than what is published, than what is cached or than
\* what a fetch brings, nor is the floor of a request newer than what was seen.
SeenOld ==
  /\ \A k \in Key \ strayed : seen[k] <= site[k]
  /\ \A k \in DOMAIN cache.items \ strayed : seen[k] <= cache.items[k].ver
  /\ \A f \in Flight : flight[f].result = "entry" /\ flight[f].key \notin strayed
                          => seen[flight[f].key] <= flight[f].entry.ver
  /\ \A c \in Context : ctx[c].pc # "idle" => ctx[c].floor <= seen[ctx[c].key]
  /\ \A c \in Context : ctx[c].got = "entry" /\ ctx[c].key \notin strayed
                           => ctx[c].floor <= ctx[c].entry.ver

\* The order of versions from cache to fetch: a fetch brings nothing older than what
\* is cached or delivered, and what was delivered and could be stored is not newer
\* than what is cached.
Upward ==
  \A f \in Flight : flight[f].result = "entry" /\ flight[f].key \notin strayed =>
    /\ Has(cache, flight[f].key) => cache.items[flight[f].key].ver <= flight[f].entry.ver
    /\ \A c \in Context : ctx[c].got = "entry" /\ ctx[c].key = flight[f].key
                             => ctx[c].entry.ver <= flight[f].entry.ver
    /\ flight[f].pc = "return" /\ Counted(flight[f].entry) /\ Has(cache, flight[f].key)
         => cache.items[flight[f].key].ver >= flight[f].entry.ver
Delivered ==
  \A c \in Context :
    ctx[c].got = "entry" /\ ctx[c].key \notin strayed /\ Counted(ctx[c].entry) /\ Has(cache, ctx[c].key)
      => ctx[c].entry.ver <= cache.items[ctx[c].key].ver

IInv == TypeOK /\ Handlers /\ OneFetch /\ Fetches /\ OwnEntries /\ SeenOld /\ Upward /\ Delivered
        /\ NoOrphan /\ MonotonicReads

=============================================================================
