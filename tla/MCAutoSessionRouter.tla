------------------------- MODULE MCAutoSessionRouter -------------------------
(* Finite instances of AutoSessionRouter: one page with a main frame and a *)
(* child frame, one execution context in each, two calls.                  *)
EXTENDS AutoSessionRouter

CONSTANTS page, main, child, x1, x2, s1, s2, call, frameCall

MCHomeOf == [x \in Contexts |-> page]
MCFrameOf == [x \in Contexts |-> IF x = x1 THEN main ELSE child]
MCTargetOf == [c \in Callers |-> page]

\* Runtime.callFunctionOn takes any context of its session,
\* ensureExecutionContext the one of its frame.
MCAccepts == [c \in Callers |-> IF c = frameCall THEN {x1} ELSE Contexts]
=============================================================================
