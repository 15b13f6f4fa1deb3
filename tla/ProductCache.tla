---------------------------- MODULE ProductCache ----------------------------
(***************************************************************************)
(* The read and write patterns of the Python cache service for one product *)
(* row: cache-aside ("ca"), read-through ("rt"), write-through ("wt") and  *)
(* refresh-ahead ("ra") each keep an entry of their own for it.  A request *)
(* reads or writes Redis and Postgres with separate awaited calls, and no  *)
(* call to Redis that fails fails a request, so any two can interleave and *)
(* any SET or DEL can be missing.                                          *)
(***************************************************************************)
EXTENDS Naturals

CONSTANTS
  Readers,         \* GET requests that can be open at once
  Writers,         \* PUT requests that can be open at once
  Gets,            \* the GET endpoints in use
  Puts,            \* the PUT endpoints in use, of "ca" and "wt"
  MaxVersion,      \* bound: updates of the row
  MaxRedisErrors   \* bound: Redis calls that raise

Keys == {"ca", "rt", "wt", "ra"}

VARIABLES
  version,    \* the row, as the number of the update it is from; seeded as 1
  cache,      \* the row each entry was made from, 0: no entry
  age,        \* of each entry: "fresh", or "expiring" in its last 10 seconds
  hot,        \* the product is in product:hot
  get,        \* each GET: what it awaits, its key, the row it has read
  put,        \* each PUT: what it awaits, the update it made, the row it read back
  refresher,  \* the background task: what it awaits, the row it has read
  answered,   \* the newest update a write-through PUT was answered for
  lapsed,     \* entries set from an old row, kept by a DEL or SETEX that failed,
              \* or of another pattern than an update
  redisErrors

entries == <<cache, age, lapsed>>
vars == <<version, entries, hot, get, put, refresher, answered, redisErrors>>

IdleGet == [at |-> "idle", key |-> "ca", row |-> 0]
IdlePut == [at |-> "idle", own |-> 0, row |-> 0]
IdleRefresher == [at |-> "idle", row |-> 0]

Init ==
  /\ version = 1
  /\ cache = [k \in Keys |-> 0]
  /\ age = [k \in Keys |-> "fresh"]
  /\ hot = FALSE
  /\ get = [r \in Readers |-> IdleGet]
  /\ put = [w \in Writers |-> IdlePut]
  /\ refresher = IdleRefresher
  /\ answered = 0
  /\ lapsed = {}
  /\ redisErrors = 0

----------------------------------------------------------------------------
\* Mutant: SET without an expiry.
SetEntry_NoTTL(k, row) ==
  /\ cache' = [cache EXCEPT ![k] = row]
  /\ age' = [age EXCEPT ![k] = "eternal"]
  /\ lapsed' = IF row < version THEN lapsed \cup {k} ELSE lapsed \ {k}

\* SETEX: the entry is new whatever it held.
SetEntry(k, row) ==
  /\ cache' = [cache EXCEPT ![k] = row]
  /\ age' = [age EXCEPT ![k] = "fresh"]
  /\ lapsed' = IF row < version THEN lapsed \cup {k} ELSE lapsed \ {k}

DropEntry(k) ==
  /\ cache' = [cache EXCEPT ![k] = 0]
  /\ age' = [age EXCEPT ![k] = "fresh"]
  /\ lapsed' = lapsed \ {k}

RedisError ==
  /\ redisErrors < MaxRedisErrors
  /\ redisErrors' = redisErrors + 1

Age(k) ==
  /\ cache[k] # 0
  /\ age[k] = "fresh"
  /\ age' = [age EXCEPT ![k] = "expiring"]
  /\ UNCHANGED <<version, cache, lapsed, hot, get, put, refresher, answered, redisErrors>>

Expire(k) ==
  /\ cache[k] # 0
  /\ age[k] = "expiring"
  /\ DropEntry(k)
  /\ UNCHANGED <<version, hot, get, put, refresher, answered, redisErrors>>

----------------------------------------------------------------------------
(* GET: the entry, or else the row and an attempt to set the entry.  The    *)
(* refresh-ahead GET marks the product hot first.                           *)

Touch(k) == hot' = (hot \/ k = "ra")

Hit(r, k) ==
  /\ get[r].at = "idle"
  /\ cache[k] # 0
  /\ Touch(k)
  /\ UNCHANGED <<version, entries, get, put, refresher, answered, redisErrors>>

Miss(r, k) ==
  /\ get[r].at = "idle"
  /\ cache[k] = 0
  /\ Touch(k)
  /\ get' = [get EXCEPT ![r] = [at |-> "select", key |-> k, row |-> 0]]
  /\ UNCHANGED <<version, entries, put, refresher, answered, redisErrors>>

\* GET, and perhaps ZADD before it, raises.  safe_cache_get takes that for a
\* miss; read-through does not catch it and the request ends.
GetFails(r, k) ==
  /\ get[r].at = "idle"
  /\ k # "rt"
  /\ RedisError
  /\ UNCHANGED hot \/ Touch(k)
  /\ get' = [get EXCEPT ![r] = [at |-> "select", key |-> k, row |-> 0]]
  /\ UNCHANGED <<version, entries, put, refresher, answered>>

SelectRow(r) ==
  /\ get[r].at = "select"
  /\ get' = [get EXCEPT ![r].at = "set", ![r].row = version]
  /\ UNCHANGED <<version, entries, hot, put, refresher, answered, redisErrors>>

FillEntry(r) ==
  /\ get[r].at = "set"
  /\ SetEntry(get[r].key, get[r].row)
  /\ get' = [get EXCEPT ![r] = IdleGet]
  /\ UNCHANGED <<version, hot, put, refresher, answered, redisErrors>>

FillFails(r) ==
  /\ get[r].at = "set"
  /\ RedisError
  /\ get' = [get EXCEPT ![r] = IdleGet]
  /\ UNCHANGED <<version, entries, hot, put, refresher, answered>>

----------------------------------------------------------------------------
(* PUT: cache-aside updates and deletes its entry, write-through updates,   *)
(* reads the row back and sets its entry.                                   *)

\* Entries an update leaves to their TTL: a PUT of a pattern knows only its own.
Missed(k) == {j \in Keys \ {k} : cache[j] # 0}

\* Mutant: the entry is deleted before the row is updated.
UpdateRow_AfterDelete(w, k) ==
  /\ put[w].at = "idle"
  /\ k \in Puts
  /\ version < MaxVersion
  /\ version' = version + 1
  /\ lapsed' = lapsed \cup Missed(k)
  /\ put' = [put EXCEPT ![w] =
       [at |-> IF k = "ca" THEN "idle" ELSE "select", own |-> version + 1, row |-> 0]]
  /\ UNCHANGED <<cache, age, hot, get, refresher, answered, redisErrors>>

UpdateRow(w, k) ==
  /\ put[w].at = "idle"
  /\ k \in Puts
  /\ version < MaxVersion
  /\ version' = version + 1
  /\ lapsed' = lapsed \cup Missed(k)
  /\ put' = [put EXCEPT ![w] =
       [at |-> IF k = "ca" THEN "delete" ELSE "select", own |-> version + 1, row |-> 0]]
  /\ UNCHANGED <<cache, age, hot, get, refresher, answered, redisErrors>>

Invalidate(w) ==
  /\ put[w].at = "delete"
  /\ DropEntry("ca")
  /\ put' = [put EXCEPT ![w] = IdlePut]
  /\ UNCHANGED <<version, hot, get, refresher, answered, redisErrors>>

\* safe_cache_delete swallows the error.
InvalidateFails(w) ==
  /\ put[w].at = "delete"
  /\ RedisError
  /\ lapsed' = IF cache["ca"] # 0 THEN lapsed \cup {"ca"} ELSE lapsed
  /\ put' = [put EXCEPT ![w] = IdlePut]
  /\ UNCHANGED <<version, cache, age, hot, get, refresher, answered>>

ReadBack(w) ==
  /\ put[w].at = "select"
  /\ put' = [put EXCEPT ![w].at = "set", ![w].row = version]
  /\ UNCHANGED <<version, entries, hot, get, refresher, answered, redisErrors>>

Answer(w) ==
  /\ answered' = IF put[w].own > answered THEN put[w].own ELSE answered
  /\ put' = [put EXCEPT ![w] = IdlePut]

WriteThrough(w) ==
  /\ put[w].at = "set"
  /\ SetEntry("wt", put[w].row)
  /\ Answer(w)
  /\ UNCHANGED <<version, hot, get, refresher, redisErrors>>

WriteThroughFails(w) ==
  /\ put[w].at = "set"
  /\ RedisError
  /\ lapsed' = IF cache["wt"] # 0 THEN lapsed \cup {"wt"} ELSE lapsed
  /\ Answer(w)
  /\ UNCHANGED <<version, cache, age, hot, get, refresher>>

----------------------------------------------------------------------------
(* refresher(): re-warm the entry of a hot product before it expires.       *)

Cool ==
  /\ refresher.at = "idle"
  /\ hot
  /\ hot' = FALSE
  /\ UNCHANGED <<version, entries, get, put, refresher, answered, redisErrors>>

Sweep ==
  /\ refresher.at = "idle"
  /\ hot
  /\ cache["ra"] # 0
  /\ age["ra"] = "expiring"
  /\ refresher' = [at |-> "select", row |-> 0]
  /\ UNCHANGED <<version, entries, hot, get, put, answered, redisErrors>>

RefreshSelect ==
  /\ refresher.at = "select"
  /\ refresher' = [at |-> "set", row |-> version]
  /\ UNCHANGED <<version, entries, hot, get, put, answered, redisErrors>>

RefreshSet ==
  /\ refresher.at = "set"
  /\ SetEntry("ra", refresher.row)
  /\ refresher' = IdleRefresher
  /\ UNCHANGED <<version, hot, get, put, answered, redisErrors>>

RefreshFails ==
  /\ refresher.at # "idle"
  /\ RedisError
  /\ refresher' = IdleRefresher
  /\ UNCHANGED <<version, entries, hot, get, put, answered>>

----------------------------------------------------------------------------
GoOn(r) == SelectRow(r) \/ FillEntry(r)
Finish(w) == Invalidate(w) \/ ReadBack(w) \/ WriteThrough(w)
Refresh == RefreshSelect \/ RefreshSet
Lifetime(k) == Age(k) \/ Expire(k)

Next ==
  \/ \E r \in Readers :
       \/ \E k \in Gets : Hit(r, k) \/ Miss(r, k) \/ GetFails(r, k)
       \/ GoOn(r) \/ FillFails(r)
  \/ \E w \in Writers :
       \/ \E k \in Puts : UpdateRow(w, k)
       \/ Finish(w) \/ InvalidateFails(w) \/ WriteThroughFails(w)
  \/ Cool \/ Sweep \/ Refresh \/ RefreshFails
  \/ \E k \in Keys : Lifetime(k)

Spec == Init /\ [][Next]_vars

\* Accepted requests and the refresher go on, and entries expire.
Fairness ==
  /\ \A r \in Readers : WF_vars(GoOn(r))
  /\ \A w \in Writers : WF_vars(Finish(w))
  /\ WF_vars(Refresh)
  /\ \A k \in Keys : WF_vars(Lifetime(k))

FairSpec == Spec /\ Fairness

----------------------------------------------------------------------------
(* Correctness.                                                             *)

\* The shape of every variable.
TypeOK ==
  /\ version \in 1..MaxVersion
  /\ cache \in [Keys -> 0..version]
  /\ age \in [Keys -> {"fresh", "expiring"}]
  /\ hot \in BOOLEAN
  /\ get \in [Readers -> [at : {"idle", "select", "set"}, key : Keys, row : 0..version]]
  /\ put \in [Writers -> [at : {"idle", "delete", "select", "set"},
                          own : 0..version, row : 0..version]]
  /\ refresher \in [at : {"idle", "select", "set"}, row : 0..version]
  /\ answered \in 0..version
  /\ lapsed \in SUBSET Keys
  /\ redisErrors \in 0..MaxRedisErrors

Stale(k) == cache[k] \notin {0, version}

\* The entry of a pattern is stale only while a PUT of this pattern is open, or
\* because it was set from a row read before an update, or because DEL or SETEX
\* failed, or because the update came through another pattern: no PUT leaves an
\* entry that was there before it.
OpenPut(k) ==
  \E w \in Writers : put[w].at \in (IF k = "ca" THEN {"delete"} ELSE {"select", "set"})
PutsReachTheirEntry ==
  \A k \in Keys : Stale(k) => k \in lapsed \/ (k \in {"ca", "wt"} /\ OpenPut(k))

\* "Any window of inconsistency self-heals": once the updates are over no entry
\* stays stale, whatever races and failures there were (TTL on every SET).
StalenessHeals == <>[](\A k \in Keys : ~Stale(k))

\* Appendix L, line 428: after a write-through PUT "the cache is never stale for
\* the writer": its entry is never older than an update that was answered.
NeverStaleForWriter == cache["wt"] # 0 => cache["wt"] >= answered
=============================================================================
