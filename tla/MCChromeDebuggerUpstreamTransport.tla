--------------- MODULE MCChromeDebuggerUpstreamTransport ---------------
(* Two tabs, one of them perhaps opened by the transport itself, a worker *)
(* target and a tab of another debugger; the calls are interchangeable.   *)
EXTENDS ChromeDebuggerUpstreamTransport, TLC

Symmetric == Permutations(Calls)
=============================================================================
