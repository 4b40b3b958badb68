------------------------- MODULE MCStructurizrProbe -------------------------
(* Two usable engines, one of which emulates, and one of Windows containers. *)
EXTENDS StructurizrProbe

Intel == [os |-> "linux", arch |-> "x86_64", product |-> "Docker Desktop", emulates |-> FALSE]
Arm == [os |-> "linux", arch |-> "aarch64", product |-> "Docker Engine", emulates |-> TRUE]
Windows == [os |-> "windows", arch |-> "amd64", product |-> "Docker Desktop", emulates |-> FALSE]
MCEngines == {Intel, Arm, Windows}

MCRequests ==
  {[host |-> "Linux", declared |-> None, required |-> "flag"],
   [host |-> "Linux", declared |-> None, required |-> "amd64"],
   [host |-> "Darwin", declared |-> "amd64", required |-> None]}
=============================================================================
