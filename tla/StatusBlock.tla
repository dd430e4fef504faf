---------------------------- MODULE StatusBlock -----------------------------
(***************************************************************************)
(* openclicknp_status: packet counters behind an AXI-Lite slave, clock     *)
(* cycle by clock cycle.  All registers change together at the clock edge, *)
(* from the values they and the inputs had before it.                      *)
(*                                                                         *)
(* The master is the environment.  It keeps a valid signal up until its    *)
(* handshake and has at most one read and one write under way.  It puts    *)
(* the data of a write beside the address, or presents it in any later     *)
(* cycle.  A handshake of a channel happens in a cycle in which both its   *)
(* valid and its ready are up.                                             *)
(***************************************************************************)
EXTENDS Naturals

CONSTANTS
  Regs,       \* counters that can be read
  MaxCount    \* bound on the packets counted

ASSUME StatusAssumption == MaxCount \in Nat

VARIABLES
  cnt,                                    \* tor_rx, tor_tx, nic_rx, nic_tx
  arvalid, araddr, arready,               \* read address channel
  rvalid, rdata, rready,                  \* read data channel
  reading,                                \* a read is under way
  floor,                                  \* cnt[araddr] when the read began
  awvalid, awready, wvalid, wready,       \* write address and data channels
  bvalid, bready,                         \* write response channel
  addressed, supplied,                    \* halves of the current write taken
  late                                    \* its data came after its address was taken

readVars  == <<arvalid, araddr, arready, rvalid, rdata, rready, reading, floor>>
writeVars == <<awvalid, awready, wvalid, wready, bvalid, bready, addressed, supplied, late>>
statusVars      == <<cnt, readVars, writeVars>>

StatusTypeOK ==
  /\ cnt \in [Regs -> 0 .. MaxCount]
  /\ araddr \in Regs
  /\ rdata \in 0 .. MaxCount /\ floor \in 0 .. MaxCount
  /\ {arvalid, arready, rvalid, rready, reading} \subseteq BOOLEAN
  /\ {awvalid, awready, wvalid, wready, bvalid, bready, addressed, supplied,
      late} \subseteq BOOLEAN

\* After reset.
StatusInit ==
  /\ cnt = [r \in Regs |-> 0]
  /\ arvalid = FALSE /\ araddr \in Regs /\ arready = FALSE
  /\ rvalid = FALSE /\ rdata = 0 /\ rready = FALSE
  /\ reading = FALSE /\ floor = 0
  /\ awvalid = FALSE /\ awready = FALSE /\ wvalid = FALSE /\ wready = FALSE
  /\ bvalid = FALSE /\ bready = FALSE
  /\ addressed = FALSE /\ supplied = FALSE /\ late = FALSE

-----------------------------------------------------------------------------
(* The block.                                                              *)

\* Packets that end in this cycle are counted.
Count ==
  \E ended \in SUBSET {r \in Regs : cnt[r] < MaxCount} :
     cnt' = [r \in Regs |-> IF r \in ended THEN cnt[r] + 1 ELSE cnt[r]]

\* Mutants: arready is not taken back; the data is the one of the last read.
MutReadStuck ==
  IF arvalid /\ ~arready
  THEN arready' = TRUE /\ rdata' = cnt[araddr] /\ rvalid' = TRUE
  ELSE /\ UNCHANGED <<arready, rdata>>
       /\ rvalid' = (rvalid /\ ~rready)

MutReadEarly ==
  IF arvalid /\ ~arready
  THEN arready' = TRUE /\ rvalid' = TRUE /\ UNCHANGED rdata
  ELSE /\ rdata' = IF rvalid /\ rready THEN cnt[araddr] ELSE rdata
       /\ arready' = (arready /\ ~(rvalid /\ rready))
       /\ rvalid' = (rvalid /\ ~rready)

ReadPath ==
  IF arvalid /\ ~arready
  THEN arready' = TRUE /\ rdata' = cnt[araddr] /\ rvalid' = TRUE
  ELSE /\ UNCHANGED rdata
       /\ arready' = (arready /\ ~(rvalid /\ rready))
       /\ rvalid' = (rvalid /\ ~rready)

\* Mutants: the response is raised again during the handshake; it is raised
\* only if the master is ready for it.
MutWriteTwice ==
  /\ awready' = (awvalid /\ ~awready)
  /\ wready' = (wvalid /\ ~wready)
  /\ bvalid' = IF awvalid /\ wvalid THEN TRUE ELSE bvalid /\ ~bready

MutWriteImpatient ==
  /\ awready' = (awvalid /\ ~awready)
  /\ wready' = (wvalid /\ ~wready)
  /\ bvalid' = IF awvalid /\ wvalid /\ bready /\ ~bvalid THEN TRUE ELSE bvalid /\ ~bready

\* The response is raised in a cycle in which both valids are up.
WritePath ==
  /\ awready' = (awvalid /\ ~awready)
  /\ wready' = (wvalid /\ ~wready)
  /\ bvalid' = IF awvalid /\ wvalid /\ ~bvalid THEN TRUE ELSE bvalid /\ ~bready

-----------------------------------------------------------------------------
(* The master.                                                             *)

Reader ==
  LET accepted == arvalid /\ arready
      answered == rvalid /\ rready
  IN  /\ IF ~reading
         THEN \/ /\ arvalid' = TRUE /\ reading' = TRUE
                 /\ araddr' \in Regs
                 /\ floor' = cnt'[araddr']
              \/ UNCHANGED <<arvalid, reading, araddr, floor>>
         ELSE /\ arvalid' = (arvalid /\ ~accepted)
              /\ reading' = ~answered
              /\ UNCHANGED <<araddr, floor>>
      /\ rready' \in BOOLEAN

Writer ==
  LET a == addressed \/ (awvalid /\ awready)
      w == supplied \/ (wvalid /\ wready)
      answered == bvalid /\ bready
      begin == ~awvalid /\ ~wvalid /\ ~addressed /\ ~supplied
  IN  /\ addressed' = (a /\ ~answered)
      /\ supplied' = (w /\ ~answered)
      /\ \/ /\ awvalid' = (awvalid /\ ~awready)
            /\ wvalid' = (wvalid /\ ~wready)
            /\ UNCHANGED late
         \/ /\ begin
            /\ awvalid' = TRUE /\ wvalid' \in BOOLEAN
            /\ late' = FALSE
         \/ /\ (awvalid \/ a) /\ ~w /\ ~wvalid
            /\ awvalid' = (awvalid /\ ~awready) /\ wvalid' = TRUE
            /\ late' = ~awvalid'
      /\ bready' \in BOOLEAN

StatusNext == Count /\ ReadPath /\ WritePath /\ Reader /\ Writer

StatusSpec == StatusInit /\ [][StatusNext]_statusVars

\* The clock runs, and the master is ready for responses again and again.
MasterReady    == StatusNext /\ rready' /\ bready'
StatusFairness == WF_statusVars(MasterReady)

-----------------------------------------------------------------------------
\* A read returns a count that the counter had after the read began: a slow
\* master is never handed the data of an earlier read.
ReadFresh == rvalid => floor <= rdata /\ rdata <= cnt[araddr]

\* There is a response only to a transaction that is under way and not yet
\* answered.
NoSpuriousResponse ==
  /\ rvalid => reading
  /\ bvalid => (awvalid \/ addressed) /\ (wvalid \/ supplied)

\* Every read is answered.
ReadsAnswered == reading ~> ~reading

\* A write is answered if its data was there before its address was taken,
\* although awready and wready are given separately.  Without ~late it is not:
\* bvalid rises only in a cycle in which awvalid and wvalid are both up.
WritesAnswered ==
  (addressed /\ supplied /\ ~late) ~> ~(addressed /\ supplied)
=============================================================================
