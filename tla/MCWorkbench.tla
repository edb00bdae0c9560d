------------------------------ MODULE MCWorkbench ------------------------------
(* Workbench with three handlers, one auto-tune run, an encoder of six ticks
   and a plan of three commands. *)
EXTENDS Workbench

CONSTANTS l1, l2, i1, i2

\* Two gains of two values, each of which may go either way.
MCAxes == <<"p", "d">>
MCWindow == <<1, 1>>
MCFound == {<<0, 1>>}

\* An offset from which the new one may be folded.
MCOffsets == {2}

\* A plan that turns, from a start beyond the limits.
MCPlan == <<1, 2, 0>>
MCStarts == {4}

=============================================================================
