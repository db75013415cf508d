------------------------------ MODULE MCProber ------------------------------
(* Addresses for the runs of Prober: a host under three schemes, another one *)
(* under one, one that makes no URL, and addresses that are not HTTP or      *)
(* cannot be decoded.                                                        *)
EXTENDS Prober

CONSTANTS h1, h2, odd

Addr(scheme, host) == [scheme |-> scheme, host |-> host]

MCAddrs == {Addr("https", h1), Addr("wss", h1), Addr("http", h1),
            Addr("ws", h2), Addr("https", odd), Addr("none", h1),
            Addr("garbled", h1)}
=============================================================================
