----------------------------- MODULE MCProcess ------------------------------
(***************************************************************************)
(* What the goroutines, processes and commands of one user share: the      *)
(* slots of the job executor at its limits, the transport to GitHub, the   *)
(* registrations of the coding clients and the records of contributions.   *)
(* They share no variable, and none reads what another writes, so that     *)
(* interleaving them would only multiply the states: a behaviour is one of *)
(* one of them, chosen in its initial state, with the others at rest.      *)
(***************************************************************************)
EXTENDS Jobs, Transport, Registrations, Workflow, TLC

VARIABLE subject

RegistrationsAtRest ==
    RegistrationsInit /\ runtimes = {1} /\ config = [c \in Clients |-> Unregistered]

\* No client has a registration, or the first has a stale one and the second a
\* current one in a file with the mode its user gave it.
RegistrationsStart ==
    /\ RegistrationsInit
    /\ runtimes = {1}
    /\ \/ config = [c \in Clients |-> Unregistered]
       \/ /\ config[1] = [Launcher(1) EXCEPT !.canonical = FALSE]
          /\ config[2] = [Launcher(1) EXCEPT !.private = FALSE]

RecordsAtRest == WorkflowInit /\ DOMAIN concerns = {} /\ DOMAIN opportunities = {}

\* Concerns of earlier commands, or an opportunity.
RecordsStart == WorkflowInit /\ (DOMAIN concerns = {} \/ DOMAIN opportunities = {})

ProcessInit ==
    /\ Init /\ TransportInit
    /\ \/ subject \in {"jobs", "transport"} /\ RegistrationsAtRest /\ RecordsAtRest
       \/ subject = "registrations" /\ RegistrationsStart /\ RecordsAtRest
       \/ subject = "records" /\ RegistrationsAtRest /\ RecordsStart

ProcessNext ==
    /\ UNCHANGED subject
    /\ \/ /\ subject = "jobs" /\ Next
          /\ UNCHANGED <<transportVars, registrationVars, workflowVars>>
       \/ /\ subject = "transport" /\ TransportNext
          /\ UNCHANGED <<vars, registrationVars, workflowVars>>
       \/ /\ subject = "registrations" /\ RegistrationsNext
          /\ UNCHANGED <<vars, transportVars, workflowVars>>
       \/ /\ subject = "records" /\ WorkflowNext
          /\ UNCHANGED <<vars, transportVars, registrationVars>>

processVars == <<vars, transportVars, registrationVars, workflowVars, subject>>
ProcessSpec == ProcessInit /\ [][ProcessNext]_processVars

(***************************************************************************)
(* The circuit of the transport, registrations and runtimes, and the       *)
(* records of contributions are well formed.                               *)
(***************************************************************************)
ProcessTypeOK == TransportTypeOK /\ RegistrationsTypeOK /\ WorkflowTypeOK

ProcessSymmetry == Permutations(JobIds)
=============================================================================
