----------------------------- MODULE DnsService -----------------------------
(***************************************************************************)
(* The application of tools/dnsrelay/main.py: the requests and the cron    *)
(* job of DnsRelay, or the administration of the hosts list, DnsHosts.     *)
(* To a request the list is an address or none, as LookupHosts has it,     *)
(* whatever the administrators do meanwhile; so the two are looked at one  *)
(* at a time.                                                              *)
(***************************************************************************)
EXTENDS DnsRelay, Sequences

CONSTANTS Admins, HostKeys, Pages, Localhost     \* see DnsHosts

Names(row) == {row.doms[n] : n \in DOMAIN row.doms}

ASSUME HostsAssumption == HostKeys \subseteq Nat \ {0}
ASSUME PagesAssumption ==
    \A page \in Pages :
        /\ page \in Seq({page[n] : n \in DOMAIN page})
        /\ \A n \in DOMAIN page : page[n].doms \in Seq(Names(page[n]))

VARIABLES
    part,        \* what is looked at: "requests" or "hosts"
    hosts, at, todo, found, asked, alone, overlap

hostVars == <<hosts, at, todo, found, asked, alone, overlap>>

H == INSTANCE DnsHosts WITH Unlisted <- CANT_RESOLVE

\* The administration reads none of the switches: any one configuration will do.
SInit ==
    /\ part \in {"requests", "hosts"} /\ Init /\ H!Init
    /\ part = "hosts" => conf = CHOOSE c \in Configs : TRUE
SNext ==
    \/ part = "requests" /\ Next /\ UNCHANGED <<part, hostVars>>
    \/ part = "hosts" /\ H!Next /\ UNCHANGED <<part, vars>>

SSpec ==
    /\ SInit /\ [][SNext]_<<part, vars, hostVars>>
    /\ WF_vars(part = "requests" /\ (CronFetches \/ CronDeletes) /\ UNCHANGED <<part, hostVars>>)

-----------------------------------------------------------------------------
(* Properties                                                              *)

\* An administrator's request that runs alone, and meets no disabled datastore, leaves
\* what it was asked for, whatever overlapping requests have left before: after a load
\* every domain that the page names is looked up as the address of the last line naming
\* it, two entities of the domain notwithstanding; after a delall nothing is listed.
AloneIsExact ==
    \A a \in Admins : alone[a] =>
        /\ at[a] = "emptied" => DOMAIN hosts = {}
        /\ at[a] = "loaded" =>
             LET page == asked[a]
                 Rows == {n \in DOMAIN page : page[n].ip # Localhost}
             IN  \A n \in Rows : \A d \in Names(page[n]) :
                   (\A m \in Rows : m > n => d \notin Names(page[m]))
                     => H!Lookup(d) = page[n].ip

\* A domain has two entities only after requests have overlapped, even if calls of the
\* datastore raise, with or without having stored the entity.
TwiceOnlyIfOverlapped ==
    overlap \/ \A k, l \in DOMAIN hosts : hosts[k].domain = hosts[l].domain => k = l
=============================================================================
