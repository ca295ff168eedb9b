------------------------------ MODULE MCClient ------------------------------
(***************************************************************************)
(* The instance of the web client for TLC: two jobs, two users, two        *)
(* requests of a page under way at once, two calls of the layer below.     *)
(***************************************************************************)
EXTENDS ClientClaims

\* Actions of the job page and of the dashboard that are explored together.
SomePageActions == {{"acceptJob", "approveWork"}, {"topUpEscrow", "cancelJob"}}
SomeDashActions == {{"approveWork"}, {"cancelJob"}}

\* The dashboard's widgets in their default order.
SomeWidgets == <<"stats", "earnings">>

\* The amount of a job is typed and deleted, the rest of its form is filled in.
SomeEdits == {<<"amount", "">>, <<"amount", "ok">>}

\* Two meeting slots that overlap in one hour.
SomeSlots == {<<1, 3>>, <<2, 4>>}

\* The settings page switches circuit breaker and queue off.
SomePatches == {[breaker |-> FALSE, queueing |-> FALSE]}
=============================================================================
