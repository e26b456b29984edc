------------------------ MODULE MCDatapathLifecycle ------------------------
(***************************************************************************)
(* Model checking of DatapathLifecycle.  The runs differ in the handles    *)
(* and datapath threads that occur and in how many power callbacks and     *)
(* owner generations are explored.                                         *)
(***************************************************************************)
EXTENDS DatapathLifecycle

=============================================================================
