------------------------------- MODULE MCRSCan -------------------------------
EXTENDS RSCan

CONSTANTS m1, m2

\* Two firmwares that poll the queue, the second one reading the data words
\* the other way round and polling again within the round; one that is told
\* of frames by other means; the answer to a frame, and a firmware that reads
\* half a frame and answers.
Polling == <<"RFSTS0", "RFID0", "RFPTR0", "RFDF00", "RFDF10", "RFPCTR0">>
Backwards == <<"RFSTS0", "RFDF10", "C0STS", "RFDF00", "RFSTS0", "RFID0", "RFPCTR0">>
Unpolled == <<"RFID0", "RFDF00", "RFDF10">>
Answer == <<"C0STS", "TMC0">>
Hasty == <<"RFSTS0", "RFID0", "RFDF10", "RFPCTR0", "TMC0">>

\* A host that leaves the one machine alone, and everything that may interfere.
Alone(vcan, p) ==
  [select_vcan_mode |-> vcan, loop |-> p, running |-> {m1}, host |-> {},
   frames |-> MaxFrames]
Busy(vcan, p) ==
  [select_vcan_mode |-> vcan, loop |-> p, running |-> {m1, m2},
   host |-> {"enqueues bad identifiers", "removes"}, frames |-> 2]

AllSettings ==
  {Alone(FALSE, Polling), Alone(FALSE, Backwards),
   Busy(FALSE, Hasty), Busy(TRUE, Hasty), Busy(TRUE, Unpolled \o Answer)}
VcanUnpolled == {Alone(TRUE, Unpolled)}

\* Two frames that agree in nothing and whose words differ, one of them with
\* an extended identifier, and a short one; two frames that agree in nothing.
CrossTraffic ==
  { [id |-> "id1", lo |-> "a", hi |-> "b"], [id |-> "ext", lo |-> "b", hi |-> "a"],
    [id |-> "id1", lo |-> "a", hi |-> Short] }
PairTraffic ==
  { [id |-> "id1", lo |-> "a", hi |-> "a"], [id |-> "id2", lo |-> "b", hi |-> "b"] }
=============================================================================
