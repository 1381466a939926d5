----------------------------- MODULE MCDnsRelay -----------------------------
(* Every way to edit the switches of config.py, and three pages of hosts,
   and none. *)
EXTENDS DnsService

CONSTANTS d1, d2, ip1, ip2

AllConfigs == [useHosts : BOOLEAN, cacheWeb : BOOLEAN, useCache : BOOLEAN]

Row(ip, doms) == [ip |-> ip, doms |-> doms]
SomePages ==
    { <<>>,
      <<Row(ip1, <<d1, d2>>)>>,
      <<Row(Localhost, <<d2>>), Row(ip1, <<>>), Row(ip2, <<d1>>)>>,
      <<Row(ip1, <<d1>>), Row(ip2, <<d2, d1>>)>> }
=============================================================================
