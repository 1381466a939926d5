------------------------------ MODULE DnsHosts ------------------------------
(***************************************************************************)
(* tools/dnsrelay: the administration of the hosts list, that is           *)
(* DNSHostsManagerHandler in main.py and DNSHostsManager in dnshosts.py.   *)
(*                                                                         *)
(* Every datastore call is one step, between which another request of an   *)
(* administrator may run: no query and put are in a transaction.  A        *)
(* handler that is over may be asked again.                                *)
(***************************************************************************)
EXTENDS Integers, Sequences, SequencesExt

CONSTANTS
    Admins,     \* the requests that run at a time
    HostKeys,   \* datastore keys, integers: a query returns the least match
    Pages,      \* the pages that load_hosts may read: sequences of lines
    Localhost,  \* 127.0.0.1
    Unlisted    \* CANT_RESOLVE, for a domain that is not listed

VARIABLES
    hosts,      \* the Host entities: a function from some of HostKeys
    at,         \* where each request is: "idle"; "query", "put" and "loaded" of a load;
                \* "delete" and "emptied" of a delall
    todo,       \* what it has to do yet: hosts to add, or keys to delete
    found,      \* the key that add_host's query has found, or 0
    asked,      \* history: the page it loads, or <<>>
    alone,      \* history: no other request has run since it began
    overlap     \* history: requests have overlapped

hostVars == <<hosts, at, todo, found, asked, alone, overlap>>

Init ==
    /\ hosts = [k \in {} |-> {}]
    /\ at = [a \in Admins |-> "idle"]
    /\ todo = [a \in Admins |-> <<>>] /\ asked = [a \in Admins |-> <<>>]
    /\ found = [a \in Admins |-> 0]
    /\ alone = [a \in Admins |-> TRUE] /\ overlap = FALSE

Listed(d) == {k \in DOMAIN hosts : hosts[k].domain = d}
Least(S) == CHOOSE k \in S : \A l \in S : k <= l

\* DNSHosts.do_hosts_lookup, and the query of add_host.
Lookup(d) == IF Listed(d) = {} THEN Unlisted ELSE hosts[Least(Listed(d))].ip

\* _parse_hosts: a line is an address with its domains; a comment or an incomplete
\* line has none, and those of localhost are left out.
Parse(page) ==
    FlattenSeq([n \in DOMAIN page |->
        IF page[n].ip = Localhost THEN <<>>
        ELSE [m \in DOMAIN page[n].doms |-> [ip |-> page[n].ip, domain |-> page[n].doms[m]]]])

Begin(a, list, page, place, end) ==
    /\ at[a] = "idle"
    /\ at' = [at EXCEPT ![a] = IF list = <<>> THEN end ELSE place]
    /\ todo' = [todo EXCEPT ![a] = list] /\ asked' = [asked EXCEPT ![a] = page]
    /\ LET quiet == \A b \in Admins : at[b] = "idle"
       IN  /\ alone' = [b \in Admins |-> IF b = a THEN quiet ELSE at[b] = "idle"]
           /\ overlap' = (overlap \/ ~quiet)
    /\ UNCHANGED <<hosts, found>>

\* op=load; a page that cannot be downloaded is as good as the empty one.
Load(a) == \E page \in Pages : Begin(a, Parse(page), page, "query", "loaded")

\* op=delall: the keys are queried, and then deleted one by one.
DelAll(a) == Begin(a, SetToSeq(DOMAIN hosts), <<>>, "delete", "emptied")

\* The handler returns, or an exception ends it.
Over(a) ==
    /\ at' = [at EXCEPT ![a] = "idle"]
    /\ todo' = [todo EXCEPT ![a] = <<>>] /\ asked' = [asked EXCEPT ![a] = <<>>]
    /\ found' = [found EXCEPT ![a] = 0] /\ alone' = [alone EXCEPT ![a] = TRUE]
    /\ UNCHANGED overlap

\* On to the rest of the list, or to the end.
Advance(a, place, end) ==
    /\ todo' = [todo EXCEPT ![a] = Tail(@)]
    /\ at' = [at EXCEPT ![a] = IF Len(todo[a]) = 1 THEN end ELSE place]
    /\ found' = [found EXCEPT ![a] = 0]
    /\ UNCHANGED <<asked, overlap>>

\* The query of add_host.
AddQuery(a) ==
    LET d == Head(todo[a]).domain
    IN  /\ at[a] = "query"
        /\ found' = [found EXCEPT ![a] = IF Listed(d) = {} THEN 0 ELSE Least(Listed(d))]
        /\ at' = [at EXCEPT ![a] = "put"]
        /\ UNCHANGED <<hosts, todo, asked, alone, overlap>>

\* A new entity gets a key that nobody has seen.
NewKeys == HostKeys \ (DOMAIN hosts \cup {found[b] : b \in Admins}
                         \cup UNION {ToSet(todo[b]) : b \in {c \in Admins : at[c] = "delete"}})

\* The host at hand is stored, in the entity found or in a new one.
Put(a, keys) ==
    \E k \in keys :
        hosts' = [l \in DOMAIN hosts \cup {k} |-> IF l = k THEN Head(todo[a]) ELSE hosts[l]]

Entity(a) == IF found[a] # 0 THEN {found[a]} ELSE NewKeys

\* Faulty variant of AddPut: what was found is not used.
AddPutNew(a) ==
    at[a] = "put" /\ Put(a, NewKeys) /\ Advance(a, "query", "loaded") /\ UNCHANGED alone

\* Faulty variant of AddPut: it ends the load.
AddPutReturns(a) ==
    at[a] = "put" /\ Put(a, Entity(a)) /\ Advance(a, "loaded", "loaded") /\ UNCHANGED alone

\* The put of add_host.
AddPut(a) ==
    at[a] = "put" /\ Put(a, Entity(a)) /\ Advance(a, "query", "loaded") /\ UNCHANGED alone

\* CapabilityDisabledError is passed over, and the next host is tried.  What such a load
\* leaves is not promised: the history has it as not alone.
AddDisabled(a) ==
    /\ at[a] = "put"
    /\ Advance(a, "query", "loaded")
    /\ alone' = [alone EXCEPT ![a] = FALSE]
    /\ UNCHANGED hosts

Delete(a) ==
    /\ at[a] = "delete"
    /\ hosts' = [l \in DOMAIN hosts \ {Head(todo[a])} |-> hosts[l]]
    /\ Advance(a, "delete", "emptied")
    /\ UNCHANGED alone

\* Any datastore call, that of count too, may raise what nobody catches.
Raises(a) == at[a] # "idle" /\ Over(a) /\ UNCHANGED hosts

\* put may raise although the entity was stored.
PutRaises(a) == at[a] = "put" /\ Put(a, Entity(a)) /\ Over(a)

\* The number of hosts is written.
Count(a) == at[a] \in {"loaded", "emptied"} /\ Over(a) /\ UNCHANGED hosts

Admin(a) ==
    \/ Load(a) \/ DelAll(a) \/ AddQuery(a) \/ AddPut(a) \/ AddDisabled(a)
    \/ Delete(a) \/ Raises(a) \/ PutRaises(a) \/ Count(a)

Next == \E a \in Admins : Admin(a)
=============================================================================
