------------------------------- MODULE MCLive -------------------------------
(* What must eventually happen in the modules that use backends, for TLC: mod_cgi and
   mod_proxy do not share state, unit says which of them a behaviour is about. *)
EXTENDS Cgi, Proxy

VARIABLE unit

Unit == {"cgi", "proxy"}

LiveInit ==
    /\ unit \in Unit
    /\ Init
    /\ pbalance \in IF unit = "proxy" THEN Balances ELSE {"fair"}
    /\ ProxyInit

Cgis(A) == unit = "cgi" /\ A /\ UNCHANGED <<unit, proxyVars>>
Proxies(A) == unit = "proxy" /\ A /\ UNCHANGED <<unit, vars>>

LiveNext == Cgis(Next) \/ Proxies(ProxyNext)

liveVars == <<unit, vars, proxyVars>>

(* The process takes its steps, a request that comes back is handled, and seconds pass:
   the main loop calls the triggers whatever requests do in between. *)
LiveSpec ==
    /\ LiveInit /\ [][LiveNext]_liveVars
    /\ WF_liveVars(Cgis(Process) \/ Proxies(ProxyAgain))
    /\ SF_liveVars(Cgis(TriggerStart) \/ Proxies(mod_proxy_trigger))
=============================================================================
