-------------------------------- MODULE Hart --------------------------------
(***************************************************************************)
(* What the hart promises the debug module: the run control interface of   *)
(* core.vhd, abstracted from the pipeline.  Core implements it, and Dm is  *)
(* composed with it.                                                       *)
(*                                                                         *)
(* phase     where the control unit is: booting, running (any state of the *)
(*           pipeline), halted (state debug) or flushing after a resume    *)
(* halted, resumeack, havereset   the outputs O_halt_ack, O_resume_ack and *)
(*           O_reset_ack                                                   *)
(* halt_req  the input I_halt_req                                          *)
(***************************************************************************)
VARIABLES phase, halted, resumeack, havereset, halt_req

outputs == <<phase, halted, resumeack, havereset>>
hartvars == <<outputs, halt_req>>

Init ==
    /\ phase = "boot"
    /\ halted = FALSE /\ resumeack = FALSE /\ havereset = FALSE
    /\ halt_req \in BOOLEAN

\* The debug module acknowledges a reset; a boot that ends at the same edge wins.
Acked(ack) == havereset' = (havereset /\ ~ack)

Boot ==
    /\ phase = "boot" /\ UNCHANGED <<halted, resumeack>>
    /\ \/ phase' = "boot" /\ havereset' = FALSE
       \/ phase' = "run" /\ havereset' = TRUE

Run(ack) ==
    /\ phase = "run" /\ Acked(ack)
    /\ UNCHANGED <<phase, halted>>
    /\ resumeack' \in {resumeack, TRUE}

\* A halt request, a breakpoint, an EBREAK or a step that is done.
Halt(ack) ==
    /\ phase = "run" /\ Acked(ack)
    /\ phase' = "halted" /\ halted' = TRUE
    /\ resumeack' \in {resumeack, TRUE}

Stay(resume, ack) ==
    /\ phase = "halted" /\ ~resume /\ Acked(ack)
    /\ UNCHANGED <<phase, halted, resumeack>>

KeepsAck(resume, ack) ==
    /\ phase = "halted" /\ resume /\ Acked(ack)
    /\ phase' = "resume" /\ halted' = FALSE /\ UNCHANGED resumeack

Resume(resume, ack) ==
    /\ phase = "halted" /\ resume /\ Acked(ack)
    /\ phase' = "resume" /\ halted' = FALSE /\ resumeack' = FALSE

Resuming(ack) ==
    /\ phase = "resume" /\ Acked(ack)
    /\ phase' \in {"resume", "run"}
    /\ UNCHANGED <<halted, resumeack>>

Reset ==
    /\ phase' = "boot" /\ halted' = FALSE
    /\ resumeack' = FALSE /\ havereset' = FALSE

\* One clock edge with the inputs resume_req and ackhavereset.
Cycle(resume, ack) ==
    \/ Boot \/ Run(ack) \/ Halt(ack) \/ Stay(resume, ack)
    \/ Resume(resume, ack) \/ Resuming(ack)

Next ==
    /\ Reset \/ \E resume, ack \in BOOLEAN : Cycle(resume, ack)
    /\ halt_req' \in BOOLEAN

Spec == Init /\ [][Next]_hartvars
=============================================================================
