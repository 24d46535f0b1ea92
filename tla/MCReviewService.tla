-------------------------- MODULE MCReviewService --------------------------
(***************************************************************************)
(* A small instance of the service.                                        *)
(***************************************************************************)
EXTENDS ReviewServiceProps

CONSTANTS pr1

MCPrs == {pr1}
MCKinds == <<{"fixture", "inline"}, {"blocked", "hostile", "escaping"}>>

=============================================================================
