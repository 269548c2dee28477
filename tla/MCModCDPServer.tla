--------------------------- MODULE MCModCDPServer ---------------------------
(* A small instance of the extension's server for TLC.                     *)
EXTENDS ModCDPServer, TLC

MCAsks == {[mode |-> "chromedebugger", adds |-> {}],
           [mode |-> "ws", adds |-> {"request", "response", "event"}],
           [mode |-> "custom", adds |-> {}],
           [mode |-> "browser", adds |-> {}]}

CallerSymmetry == Permutations(Requests) \cup Permutations(Starts)

=============================================================================
