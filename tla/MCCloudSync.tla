----------------------------- MODULE MCCloudSync -----------------------------
(* Small instances of CloudSync for TLC. *)
EXTENDS CloudSync

CONSTANTS a, b,     \* two devices
          note      \* the logical id of a knowledge object

\* One process per device, one call at a time.
SoleEngine == {a, b}
SoleDeviceOf == [g \in SoleEngine |-> g]
SoleEngineOf == [h \in SoleEngine |-> h]

\* Two calls at a time in the Desktop process of device a.
DesktopHandlers == {<<a, 1>>, <<a, 2>>, <<b, 1>>}
DesktopEngineOf == [h \in DesktopHandlers |-> h[1]]

\* The Desktop and the CLI of device a on one state file.
SharedEngines == {<<a, "desktop">>, <<a, "cli">>}
SharedDeviceOf == [g \in SharedEngines |-> a]
SharedEngineOf == [h \in SharedEngines |-> h]

\* Record ids are HMACs, in no relation to counters: here a's ids sort above
\* b's of the same counter, and ids sort downwards as counters grow.
FallingIds(x, y) ==
    LET place(z) == 2 * z.counter + (IF z.device = a THEN 0 ELSE 1)
    IN  place(x) < place(y)

RisingIds(x, y) == ~FallingIds(x, y)
=============================================================================
