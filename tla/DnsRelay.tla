------------------------------ MODULE DnsRelay ------------------------------
(***************************************************************************)
(* tools/dnsrelay: concurrent DNS requests (MainHandler.get in main.py),   *)
(* the address cache in the datastore (DNSCacheManager in dnscache.py) and *)
(* the cron job that deletes old entries (cron.py).                        *)
(*                                                                         *)
(* Every datastore call and every query of a web service is one step; any  *)
(* other request or the cron job may run between two of them, because the  *)
(* query and the put of DNSCacheManager.update are not in a transaction.   *)
(*                                                                         *)
(* A request's place is pc[r]: "idle", "hosts", "cache", "web1", "web2",   *)
(* "read" and "put" (the two calls of update), "done".                     *)
(*                                                                         *)
(* Time is counted in ticks of several hours.  App Engine ends a request   *)
(* after seconds, so time passes only while no request or job runs.        *)
(***************************************************************************)
EXTENDS Integers, FiniteSets

CONSTANTS
    Requests,      \* the requests of one behaviour
    Domains,       \* valid host names
    BadName,       \* a request without a valid host name
    Ips,           \* addresses
    CANT_RESOLVE,
    Unbound,       \* the value of a Python local not yet assigned
    Keys,          \* datastore keys, integers: a query returns the least match
    NoKey,
    Configs,       \* the configurations (config.py) considered
    Life,          \* cache_life, in ticks
    Day,           \* ticks per day
    CronLife,      \* cache_cron_life, in ticks
    Batch,         \* entities per fetch of the cron job (100 in the code)
    MaxTime        \* bound on the ticks of one behaviour

ASSUME DnsAssumption ==
    /\ Keys \subseteq Nat /\ NoKey \notin Keys
    /\ BadName \notin Domains
    /\ IsFiniteSet(Requests)
    /\ CANT_RESOLVE \notin Ips /\ Unbound \notin Ips \cup {CANT_RESOLVE, "error"}
    /\ Configs \subseteq [useHosts : BOOLEAN, cacheWeb : BOOLEAN, useCache : BOOLEAN]
    /\ Life \in Nat /\ Day \in Nat /\ CronLife \in Nat
    /\ Batch \in Nat \ {0}
    /\ MaxTime \in Nat

VARIABLES
    conf,      \* g_config
    now,       \* datetime.utcnow()
    cache,     \* the HostCache entities: a function from some of Keys
    pc,        \* where each request is
    req,       \* the locals of each request
    answer,    \* what each request has written: an address, CANT_RESOLVE, or
               \* "error" when an exception escaped the handler
    served,    \* history: for an answer from the cache, how old it was
    cron,      \* the cron job: "idle", "fetch" or "delete"
    limit,     \* its time limit
    batch,     \* the keys it has fetched
    updates    \* history: number of updates started, with and without a hit

vars == <<conf, now, cache, pc, req, answer, served, cron, limit, batch, updates>>
cronVars == <<cron, limit, batch>>

\* No answer came from the cache.
NotServed == [since |-> 0, old |-> -1, failure |-> FALSE]

\* The part of an entity that update() copies while a request holds it.
NoEntity == [key |-> NoKey]

IdleReq == [domain |-> BadName, uc |-> FALSE, ret |-> Unbound, ip |-> CANT_RESOLVE,
            hit |-> FALSE, entity |-> NoEntity, back |-> "done"]

Init ==
    /\ conf \in Configs
    /\ now = 0
    /\ cache = [k \in {} |-> NoEntity]
    /\ pc = [r \in Requests |-> "idle"]
    /\ req = [r \in Requests |-> IdleReq]
    /\ answer = [r \in Requests |-> Unbound]
    /\ served = [r \in Requests |-> NotServed]
    /\ cron = "idle"
    /\ limit = 0
    /\ batch = {}
    /\ updates = [hit |-> 0, failed |-> 0]

-----------------------------------------------------------------------------
(* The datastore                                                           *)

Matching(d) == {k \in DOMAIN cache : cache[k].domain = d}

\* SELECT * FROM HostCache WHERE domain = d LIMIT 1
Query(d) ==
    IF Matching(d) = {} THEN NoEntity
    ELSE LET k == CHOOSE x \in Matching(d) : \A y \in Matching(d) : x <= y
         IN  [key |-> k, host |-> cache[k]]

\* put() of the entity `host' under the key k.
Store(k, host) ==
    cache' = [x \in DOMAIN cache \cup {k} |-> IF x = k THEN host ELSE cache[x]]

-----------------------------------------------------------------------------
(* DNSCacheManager                                                         *)

\* A request that is done has no locals any more.
Locals(x, to) == IF to = "done" THEN IdleReq ELSE x

\* r writes a and returns.
Answer(r, a) ==
    /\ answer' = [answer EXCEPT ![r] = a]
    /\ pc' = [pc EXCEPT ![r] = "done"]
    /\ req' = [req EXCEPT ![r] = IdleReq]

\* Go to update(domain, ip, hit) and then to `back', with r's locals x.
CallUpdate(r, x, ip, hit, back) ==
    /\ req' = [req EXCEPT ![r] = [x EXCEPT !.ip = ip, !.hit = hit, !.back = back]]
    /\ pc' = [pc EXCEPT ![r] = "read"]
    /\ updates' = IF hit THEN [updates EXCEPT !.hit = @ + 1]
                  ELSE [updates EXCEPT !.failed = @ + 1]

\* The query of update().
UpdateRead(r) ==
    /\ pc[r] = "read"
    /\ pc' = [pc EXCEPT ![r] = "put"]
    /\ req' = [req EXCEPT ![r].entity = Query(req[r].domain)]
    /\ UNCHANGED <<conf, now, cache, answer, served, cronVars, updates>>

\* Faulty variant of Touched: counts a failed lookup as a hit as well.
TouchedBoth(host, x) ==
    IF x.hit
    THEN [host EXCEPT !.hit = @ + 1, !.ip = x.ip, !.date = now, !.obtained = now,
                      !.failure = FALSE]
    ELSE [host EXCEPT !.hit = @ + 1, !.failed = @ + 1, !.date = now, !.failure = TRUE]

\* What update() makes of an entity it has read.  A lookup that failed keeps
\* the address and still sets update_date.  obtained (when the address came
\* from a source) and failure (whether update_date is that of a failed lookup)
\* are history.
Touched(host, x) ==
    IF x.hit
    THEN [host EXCEPT !.hit = @ + 1, !.ip = x.ip, !.date = now, !.obtained = now,
                      !.failure = FALSE]
    ELSE [host EXCEPT !.failed = @ + 1, !.date = now, !.failure = TRUE]

\* The record update() adds when it has found none.
Fresh(x) ==
    [domain |-> x.domain, ip |-> x.ip, date |-> now, obtained |-> now,
     hit |-> IF x.hit THEN 1 ELSE 0, failed |-> IF x.hit THEN 0 ELSE 1,
     failure |-> FALSE]

\* A new entity gets a key that nobody has seen.
NewKeys == Keys \ (DOMAIN cache \cup batch \cup {req[r].entity.key : r \in Requests})

\* The put of update().  put() may raise although the entity was stored.
UpdatePut(r) ==
    LET x == req[r]
    IN  /\ pc[r] = "put"
        /\ IF x.entity.key = NoKey
           THEN \E k \in NewKeys : Store(k, Fresh(x))
           ELSE Store(x.entity.key, Touched(x.entity.host, x))
        /\ \/ /\ pc' = [pc EXCEPT ![r] = x.back]
              /\ req' = [req EXCEPT ![r] = Locals([x EXCEPT !.entity = NoEntity], x.back)]
              /\ UNCHANGED answer
           \/ Answer(r, "error")
        /\ UNCHANGED <<conf, now, served, cronVars, updates>>

\* Faulty variant of Usable: the age is not looked at.
UsableAlways(host) == host.ip # CANT_RESOLVE

\* The test of DNSCacheManager.lookup.  timedelta.seconds is the age without
\* its whole days.
Usable(host) ==
    /\ host.ip # CANT_RESOLVE
    /\ (now - host.date) % Day < Life

-----------------------------------------------------------------------------
(* MainHandler.get                                                         *)


AfterHosts(x) == IF conf.useCache \/ x.uc THEN "cache" ELSE "web1"

\* Parse the request.  uh and uc are the query parameters of these names.
Start(r) ==
    /\ pc[r] = "idle"
    /\ \E d \in Domains, uh, uc \in BOOLEAN :
         LET x == [IdleReq EXCEPT !.domain = d, !.uc = uc]
         IN  /\ req' = [req EXCEPT ![r] = x]
             /\ pc' = [pc EXCEPT ![r] = IF conf.useHosts \/ uh THEN "hosts"
                                        ELSE AfterHosts(x)]
    /\ UNCHANGED <<conf, now, cache, answer, served, cronVars, updates>>

\* No domain, or not a valid host name.
Refuse(r) ==
    /\ pc[r] = "idle"
    /\ Answer(r, CANT_RESOLVE)
    /\ UNCHANGED <<conf, now, cache, served, cronVars, updates>>

\* DNSHosts.lookup: the administrator may have listed any address, or none, and
\* either way the result goes into the cache.
LookupHosts(r) ==
    /\ pc[r] = "hosts"
    /\ \E ret \in Ips \cup {CANT_RESOLVE} :
         LET x == [req[r] EXCEPT !.ret = ret]
         IN  IF ret # CANT_RESOLVE
             THEN /\ CallUpdate(r, x, ret, TRUE, "done")
                  /\ answer' = [answer EXCEPT ![r] = ret]
             ELSE /\ CallUpdate(r, x, ret, FALSE, AfterHosts(x))
                  /\ UNCHANGED answer
    /\ UNCHANGED <<conf, now, cache, served, cronVars>>

\* Faulty variant of LookupCache: a miss returns nothing.
LookupCacheKeeps(r) ==
    LET found == Query(req[r].domain)
        usable == found.key # NoKey /\ Usable(found.host)
    IN  /\ pc[r] = "cache"
        /\ \/ /\ usable
              /\ Answer(r, found.host.ip)
              /\ served' = [served EXCEPT ![r] =
                              [since |-> now - found.host.date,
                               old |-> now - found.host.obtained,
                               failure |-> found.host.failure]]
           \/ /\ ~usable
              /\ pc' = [pc EXCEPT ![r] = "web1"]
              /\ UNCHANGED <<req, answer, served>>
        /\ UNCHANGED <<conf, now, cache, cronVars, updates>>

LookupCache(r) ==
    LET found == Query(req[r].domain)
        usable == found.key # NoKey /\ Usable(found.host)
    IN  /\ pc[r] = "cache"
        /\ \/ /\ usable
              /\ Answer(r, found.host.ip)
              /\ served' = [served EXCEPT ![r] =
                              [since |-> now - found.host.date,
                               old |-> now - found.host.obtained,
                               failure |-> found.host.failure]]
           \/ /\ ~usable
              /\ pc' = [pc EXCEPT ![r] = "web1"]
              /\ req' = [req EXCEPT ![r].ret = CANT_RESOLVE]
              /\ UNCHANGED <<answer, served>>
        /\ UNCHANGED <<conf, now, cache, cronVars, updates>>

\* One of the two web services knows an address: it is written, and cached.
WebFinds(r) ==
    /\ pc[r] \in {"web1", "web2"}
    /\ \E ret \in Ips :
         IF conf.cacheWeb
         THEN /\ CallUpdate(r, [req[r] EXCEPT !.ret = ret], ret, TRUE, "done")
              /\ answer' = [answer EXCEPT ![r] = ret]
         ELSE Answer(r, ret) /\ UNCHANGED updates
    /\ UNCHANGED <<conf, now, cache, served, cronVars>>

\* ret after a web service that knows no address, or raises WebRequestError and
\* leaves ret as it was.
WebMiss(r) == {CANT_RESOLVE, req[r].ret}

\* The first service has no answer: try the second.
Web1Misses(r) ==
    /\ pc[r] = "web1"
    /\ \E ret \in WebMiss(r) : req' = [req EXCEPT ![r].ret = ret]
    /\ pc' = [pc EXCEPT ![r] = "web2"]
    /\ UNCHANGED <<conf, now, cache, answer, served, cronVars, updates>>

\* Nor has the second: the failure is recorded in the cache, with ret as the
\* address, which no statement may have assigned; then CANT_RESOLVE is written.
Web2Misses(r) ==
    /\ pc[r] = "web2"
    /\ \E ret \in WebMiss(r) :
         IF conf.cacheWeb /\ ret # Unbound
         THEN /\ CallUpdate(r, [req[r] EXCEPT !.ret = ret], ret, FALSE, "done")
              /\ answer' = [answer EXCEPT ![r] = CANT_RESOLVE]
         ELSE /\ Answer(r, IF conf.cacheWeb THEN Unbound ELSE CANT_RESOLVE)
              /\ UNCHANGED updates
    /\ UNCHANGED <<conf, now, cache, served, cronVars>>

\* A datastore call raises and nothing was stored: App Engine answers with an
\* error page in place of what was written.
DatastoreFails(r) ==
    /\ pc[r] \in {"hosts", "cache", "read", "put"}
    /\ Answer(r, "error")
    /\ UNCHANGED <<conf, now, cache, served, cronVars, updates>>

Request(r) ==
    \/ Start(r) \/ Refuse(r)
    \/ LookupHosts(r) \/ LookupCache(r)
    \/ WebFinds(r) \/ Web1Misses(r) \/ Web2Misses(r)
    \/ UpdateRead(r) \/ UpdatePut(r)
    \/ DatastoreFails(r)

-----------------------------------------------------------------------------
(* CleanOldCacheHandler and DNSCacheManager.delete_old_cache               *)

CronStarts ==
    /\ cron = "idle"
    /\ cron' = "fetch"
    /\ limit' = now - CronLife
    /\ UNCHANGED <<conf, now, cache, pc, req, answer, served, batch, updates>>

Old == {k \in DOMAIN cache : cache[k].date < limit}

CronFetches ==
    /\ cron = "fetch"
    /\ \E ret \in SUBSET Old :
         /\ Cardinality(ret) = IF Cardinality(Old) < Batch THEN Cardinality(Old)
                               ELSE Batch
         /\ batch' = ret
         /\ IF ret = {} THEN cron' = "idle" /\ limit' = 0
            ELSE cron' = "delete" /\ UNCHANGED limit
    /\ UNCHANGED <<conf, now, cache, pc, req, answer, served, updates>>

\* Faulty variant of CronDeletes: nothing is deleted.
CronDeletesNothing ==
    /\ cron = "delete"
    /\ batch' = {}
    /\ cron' = "fetch"
    /\ UNCHANGED <<conf, now, cache, pc, req, answer, served, limit, updates>>

\* db.delete of what was fetched, whatever has been put there since.
CronDeletes ==
    /\ cron = "delete"
    /\ cache' = [k \in DOMAIN cache \ batch |-> cache[k]]
    /\ batch' = {}
    /\ cron' = "fetch"
    /\ UNCHANGED <<conf, now, pc, req, answer, served, limit, updates>>

\* The datastore raises, at a delete perhaps when some are gone, and nobody catches it.
CronRaises ==
    /\ cron # "idle"
    /\ \E gone \in SUBSET batch : cache' = [k \in DOMAIN cache \ gone |-> cache[k]]
    /\ batch' = {}
    /\ cron' = "idle" /\ limit' = 0
    /\ UNCHANGED <<conf, now, pc, req, answer, served, updates>>

Cron == CronStarts \/ CronFetches \/ CronDeletes \/ CronRaises

-----------------------------------------------------------------------------
Tick ==
    /\ now < MaxTime
    /\ \A r \in Requests : pc[r] \in {"idle", "done"}
    /\ cron = "idle"
    /\ now' = now + 1
    /\ UNCHANGED <<conf, cache, pc, req, answer, served, cronVars, updates>>

Next == Tick \/ Cron \/ \E r \in Requests : Request(r)

Spec == Init /\ [][Next]_vars

\* A cron job that was started keeps running; nothing has to start one.
FairSpec == Spec /\ WF_vars(CronFetches \/ CronDeletes)

-----------------------------------------------------------------------------
(* Properties                                                              *)

\* However requests and the cron job interleave, there are two ways only for an
\* address older than cache_life to be served from the cache: its entry's age
\* has whole days in it, or a lookup that failed renewed its update_date.
StaleOnlyIf ==
    \A r \in Requests : \/ served[r].old < Life
                        \/ served[r].since >= Day
                        \/ served[r].failure

\* What the entries count: a pair for each hit, and for each failure, of each entry.
Hits     == UNION {{k} \X (1..cache[k].hit) : k \in DOMAIN cache}
Failures == UNION {{k} \X (1..cache[k].failed) : k \in DOMAIN cache}

\* Lost updates, duplicate entries and entries put back after a delete never
\* make the entries count more hits or failures than there were lookups.
NeverOvercounts ==
    /\ Cardinality(Hits) <= updates.hit
    /\ Cardinality(Failures) <= updates.failed

\* The cron job ends, even while requests put back what it deletes.
CronEnds == (cron # "idle") ~> (cron = "idle")

\* Only with use_cache and use_hosts off can a request end without an answer: `ret' is
\* then read before any statement has assigned it, when both web services raise.
UnboundOnlyIf ==
    \A r \in Requests :
        pc[r] = "done" /\ answer[r] = Unbound => ~conf.useCache /\ ~conf.useHosts
=============================================================================
