--------------------------- MODULE MCVoiceCapture ---------------------------
(***************************************************************************)
(* VoiceCapture on small instances: each setup makes another part happen.  *)
(***************************************************************************)
EXTENDS VoiceCapture

\* Before the first step the host is absent, has a session, or has enabled voice in it.
Setup(engine, host0, presses, audio, host, sessions, glitches, faults, links) ==
    [engine |-> engine, sessions |-> IF host0 = "absent" THEN 0 ELSE 1,
     enabled |-> host0 = "enabled",
     left |-> [press |-> presses, audio |-> audio, host |-> host, session |-> sessions,
               glitch |-> glitches, fault |-> faults, link |-> links]]

\* The preroll fills up before the host has negotiated; a session changes while units wait,
\* on a first and on a second link; the key is pressed again; something is refused or lost.
UnicomSetups ==
    {Setup(Unicom, "present", 1, 6, 1, 0, 0, 0, 0), Setup(Unicom, "present", 1, 4, 1, 1, 0, 0, 0),
     Setup(Unicom, "present", 1, 2, 1, 1, 0, 0, 2), Setup(Unicom, "enabled", 2, 2, 0, 0, 0, 0, 0),
     Setup(Unicom, "enabled", 1, 2, 1, 0, 1, 1, 0), Setup(Unicom, "absent", 1, 2, 1, 1, 0, 0, 0)}

\* Each way a remote starts, with and without a seeded decoder: a second link, a refused
\* write, a misbehaving remote, a second press, a host that has not enabled voice.
AtvvSetups ==
    {Setup(Atvv("HTT", TRUE), "enabled", 1, 1, 0, 0, 0, 0, 2),
     Setup(Atvv("HTT", FALSE), "enabled", 1, 1, 1, 0, 0, 0, 0),
     Setup(Atvv("HTT", TRUE), "present", 1, 1, 1, 0, 0, 0, 0),
     Setup(Atvv("REQUEST", TRUE), "enabled", 1, 0, 0, 0, 0, 1, 2),
     Setup(Atvv("REQUEST", FALSE), "enabled", 1, 1, 0, 0, 1, 1, 0),
     Setup(Atvv("REQUEST", TRUE), "enabled", 2, 0, 1, 0, 0, 0, 0),
     Setup(Atvv("PTT", FALSE), "enabled", 1, 1, 0, 0, 0, 1, 0),
     Setup(Atvv("PTT", TRUE), "enabled", 1, 1, 1, 1, 0, 0, 0)}

MCSetups == UnicomSetups \cup AtvvSetups
=============================================================================
