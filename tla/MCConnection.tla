---------------------------- MODULE MCConnection ----------------------------
(* Clients for TLC: of their first requests one is as long as a block, one is *)
(* longer, and some have no Host; the second ones ask for the rest.           *)
EXTENDS Connection

Req(path, version, headers) == [path |-> path, version |-> version, headers |-> headers]

First == {Req("/search", "HTTP/1.1", <<"Host", "Connection: keep-alive", "User-Agent">>),
          Req("/search", "HTTP/1.1", <<"Connection: keep-alive", "Host">>),
          Req("/status", "HTTP/1.1", <<"Connection: keep-alive">>),
          Req("file", "HTTP/1.0", <<"Connection: keep-alive", "User-Agent">>)}

Second == {Req("/statistic", "HTTP/1.0", <<"Connection: keep-alive">>),
           Req("file", "HTTP/1.0", <<>>),
           Req("/status", "HTTP/1.1", <<"Host">>)}

MCClients == {<<r, s>> : r \in First, s \in Second}
=============================================================================
