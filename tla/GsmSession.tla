---------------------------- MODULE GsmSession ----------------------------
(***************************************************************************)
(* The MQTT session over the modem (GsmMqttClient) as far as others drive  *)
(* it: configured, ended, suspended and resumed.  Its own loop() needs the *)
(* link and is in CellularDevice; the link's gates need Suspend and Resume *)
(* and are in GsmLink.  Operators map a session to the session afterwards, *)
(* because several of these calls can happen within one handler.           *)
(*                                                                         *)
(* Retry timers are left out: an attempt that is not due is a pass that    *)
(* changes nothing.  The inbound queue is left out too: the device takes a *)
(* message in the pass in which the session receives it.                   *)
(***************************************************************************)

SessionType ==
    [configured: BOOLEAN,  \* _configurado
     suspended:  BOOLEAN,  \* _suspenso
     connected:  BOOLEAN,  \* _conectado
     had:        BOOLEAN,  \* _estava_conectado
     opening:    BOOLEAN,  \* _cipstart_ms # 0: the modem may still open a socket
     registered: BOOLEAN]  \* g_instancia points here: messages can be delivered

NewSession ==
    [configured |-> FALSE, suspended |-> FALSE, connected |-> FALSE,
     had |-> FALSE, opening |-> FALSE, registered |-> TRUE]

(* begin(), with a profile this link can serve.                            *)
BeginSession(s) == [s EXCEPT !.configured = TRUE, !.suspended = FALSE]

EndSession(s) ==
    [s EXCEPT !.had = FALSE, !.connected = FALSE, !.opening = FALSE,
              !.configured = FALSE, !.registered = FALSE]

Suspend(s) ==
    IF s.suspended THEN s
    ELSE [s EXCEPT !.suspended = TRUE, !.had = FALSE,
                   !.connected = FALSE, !.opening = FALSE]

Resume(s) == [s EXCEPT !.suspended = FALSE]
=============================================================================
