------------------------------ MODULE MCHostApp ------------------------------
(* The host application with its three sections and the sidebar's dead link.       *)
EXTENDS HostApp

ThreeSections == {"/students", "/posts", "/groups"}
DeadLinks == {"/meetings"}
=============================================================================
