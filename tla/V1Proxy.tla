------------------------------ MODULE V1Proxy -------------------------------
(***************************************************************************)
(* The API key proxy of the v1 sandbox and the environment of the          *)
(* container it serves: what the container is told, how a request that     *)
(* arrives in pieces is read, checked and forwarded, and the shutdown.     *)
(***************************************************************************)
EXTENDS Integers, Sequences, FiniteSets

CONSTANTS
    Requests,   \* the requests to consider: records of Request
    Chunk,      \* bytes one read returns at most
    Limit,      \* 10 MB: the most a request may hold
    EnvLists    \* the env: lists a sandbox configuration may have

\* head: bytes to the end of the headers; length: what content-length says; size: all the
\* bytes the client will send; line: the request line has its three parts; api: the path is
\* one of the API; token: x-api-key is the token of this session; method: a known method.
Request == [head : Nat, length : Nat, size : Nat,
            line : BOOLEAN, api : BOOLEAN, token : BOOLEAN, method : BOOLEAN]

ASSUME ProxyAssumption ==
    /\ Requests \subseteq Request /\ Chunk \in Nat \ {0} /\ Limit \in Nat
    /\ EnvLists \subseteq SUBSET {"ANTHROPIC_API_KEY", "OPENAI_API_KEY", "GH_TOKEN"}

VARIABLES
    envlist,    \* env: of the configuration, empty for the built-in list
    hosted,     \* whether the host has ANTHROPIC_API_KEY, so that a proxy is started
    cenv,       \* the container's environment: pairs of a name and whose value it has
    proxied,    \* "off", "on" or "stopped"
    conn,       \* "none", "reading", "checking", "upstream", "closed"
    req, got,   \* the request on the connection and the bytes read of it
    upstream,   \* what was sent to the API: << >> or <<bytes>>
    reply       \* the status the client got, "none" before, "lost" when it got none

proxyVars == <<envlist, hosted, cenv, proxied, conn, req, got, upstream, reply>>
connVars == <<conn, req, got, upstream, reply>>

ProxyInit ==
    /\ envlist \in EnvLists /\ hosted \in BOOLEAN /\ cenv = {} /\ proxied = "off" /\ conn = "none"
    /\ req \in Requests /\ got = 0 /\ upstream = << >> /\ reply = "none"

-----------------------------------------------------------------------------
(* The container *)

AutoEnv == {"ANTHROPIC_API_KEY", "OPENAI_API_KEY", "GH_TOKEN", "GITHUB_TOKEN"}
EffectiveEnv == IF envlist = {} THEN AutoEnv ELSE envlist

\* effective_env_with_proxy: without the secrets the proxy keeps.
EnvWithProxy == EffectiveEnv \ {"ANTHROPIC_API_KEY"}

ProxyStart ==
    /\ proxied = "off" /\ cenv = {} /\ hosted /\ proxied' = "on"
    /\ UNCHANGED <<envlist, hosted, cenv, connVars>>

\* docker create: host values for the listed names, and with a proxy its address and token.
CreateEnv ==
    /\ cenv = {} /\ (proxied = "on" \/ ~hosted)
    /\ cenv' = {<<"HOME", "fixed">>} \cup
          (IF proxied = "on"
           THEN {<<k, "host">> : k \in EnvWithProxy}
                \cup {<<"ANTHROPIC_BASE_URL", "proxy">>, <<"ANTHROPIC_API_KEY", "token">>}
           ELSE {<<k, "host">> : k \in EffectiveEnv \ {"ANTHROPIC_API_KEY"}})
    /\ UNCHANGED <<envlist, hosted, proxied, connVars>>

\* stop, or the drop of the proxy: the accept loop ends, connections under way do not.
ProxyStop ==
    /\ proxied = "on" /\ proxied' = "stopped" /\ UNCHANGED <<envlist, hosted, cenv, connVars>>

-----------------------------------------------------------------------------
(* A connection *)

Accept ==
    /\ proxied = "on" /\ cenv # {} /\ conn = "none" /\ conn' = "reading"
    /\ UNCHANGED <<envlist, hosted, cenv, proxied, req, got, upstream, reply>>

ProxyFrame == <<envlist, hosted, cenv, proxied, req>>

Close(status) == conn' = "closed" /\ reply' = status

\* Variant: a request is complete with its headers.
Complete_Headers(n) == n >= req.head

\* The headers are there, and as many bytes behind them as content-length says.
Complete(n) == n >= req.head /\ n - req.head >= req.length

TooLarge(n) == n > Limit

\* A read of whatever has arrived.
Read ==
    /\ conn = "reading" /\ got < req.size
    /\ \E n \in 1..Chunk :
          /\ got + n <= req.size /\ got' = got + n
          /\ CASE Complete(got') -> conn' = "checking" /\ UNCHANGED reply
               [] TooLarge(got') /\ ~Complete(got') -> Close("413")
               [] OTHER -> UNCHANGED <<conn, reply>>
    /\ UNCHANGED <<ProxyFrame, upstream>>

\* The client closes, or the connection breaks.
ClientCloses ==
    /\ conn = "reading" /\ Close("lost") /\ UNCHANGED <<ProxyFrame, got, upstream>>

Allowed(r) == r.line /\ r.api /\ r.token /\ r.method

\* The request line, then the path, then the token, then the method.
Refuse ==
    /\ conn = "checking" /\ ~Allowed(req)
    /\ Close(IF ~req.line THEN "400" ELSE IF ~req.api THEN "403" ELSE IF ~req.token THEN "401" ELSE "405")
    /\ UNCHANGED <<ProxyFrame, got, upstream>>

\* The request goes on with the real key in place of the token.
Forward ==
    /\ conn = "checking" /\ Allowed(req) /\ conn' = "upstream" /\ upstream' = <<got>>
    /\ UNCHANGED <<ProxyFrame, got, reply>>

\* The API answers, or the request or its body fails within the client's timeout.
Relay ==
    /\ conn = "upstream" /\ \E s \in {"relayed", "502"} : Close(s)
    /\ UNCHANGED <<ProxyFrame, got, upstream>>

ProxyIdle == conn \in {"none", "closed"} /\ UNCHANGED proxyVars

ProxyServe == Read \/ Refuse \/ Forward \/ Relay
ProxyNext ==
    ProxyStart \/ CreateEnv \/ ProxyStop \/ Accept \/ ProxyServe \/ ClientCloses \/ ProxyIdle
ProxySpec == ProxyInit /\ [][ProxyNext]_proxyVars

-----------------------------------------------------------------------------
(* Properties *)

\* Types of the proxy; what is buffered of a request stays within one read of the limit.
ProxyTypeOK ==
    /\ proxied \in {"off", "on", "stopped"} /\ req \in Requests /\ got <= Limit + Chunk
    /\ conn \in {"none", "reading", "checking", "upstream", "closed"} /\ Len(upstream) <= 1

\* The container never has the host's API key, also when its configuration lists the name.
KeyStaysOnHost == <<"ANTHROPIC_API_KEY", "host">> \notin cenv

\* Whatever is sent upstream with the key came with the token of this session and had
\* arrived whole.
ForwardedWholeAndKnown ==
    upstream # << >> => req.token /\ req.api /\ upstream[1] >= req.head + req.length

\* The key is used for whole requests of this session's container and is never in it.
ProxySafe == ProxyTypeOK /\ KeyStaysOnHost /\ ForwardedWholeAndKnown
=============================================================================
