------------------------------ MODULE TaskaDesk ------------------------------
(* What the commands of a store do, under one configuration.               *)
EXTENDS TaskaEdit, TaskaRepair
=============================================================================
