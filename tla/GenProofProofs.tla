--------------------------- MODULE GenProofProofs ---------------------------
(***************************************************************************)
(* What every step of a gen-proof process preserves, for every external    *)
(* verification, every set of requests and every number of processes.      *)
(* ProofPipelineProofs uses it for the processes of the pipeline.          *)
(***************************************************************************)
EXTENDS GenProof, SequenceTheorems, TLAPS

(* What the guest reads is what the host wrote, each value in its place. *)
LEMMA Vectors ==
  ASSUME NEW r, NEW read, NEW in, in = Inputs(r, read)
  PROVE  ReadVectors(IntoStdin(in)) = in
BY DEF Inputs, ReadVectors, IntoStdin

(* The host demands the sizes the guest asserts. *)
LEMMA Sized ==
  ASSUME NEW r, NEW read, NEW in, in = Inputs(r, read), Decodable(in)
  PROVE  WellSized(in)
BY DEF Inputs, Decodable, Decodes, WellSized, Vector, CUSTODY_SCRIPT_CONFIG_SIZE,
       SOLANA_HEADER_SIZE, CONFIG_PARAMS_SIZE

(* What the guest embedded for a network commits. *)
LEMMA GuestCommits ==
  ASSUME NEW net \in Networks, NEW r, NEW read, NEW in, in = Inputs(r, read)
  PROVE  Guest(net, IntoStdin(in)) =
           IF WellSized(in) /\ Consistent(net, in) THEN {PublicValue(net, in)} ELSE {}
<1>1. Guest(net, IntoStdin(in)) = Commits(net, IntoStdin(in))
  BY DEF Guest, RunGuest, BlockProgram, BlockTransition, BlockTransitionTestnet, Networks
<1> QED BY <1>1, Vectors DEF Commits

LEMMA AskedIsInputs == \E read : Asked = Inputs(request, read)
BY DEF Asked, DaemonInputs, ArgsInputs

-----------------------------------------------------------------------------
(* One process *)

Places ==
  /\ mode \in Mode /\ network \in Networks /\ pc \in Pc
  /\ request \in Requests \cup {Nothing}
  /\ answer.kind \in {"none", "identity", "vkey", "proof", "error"}
  /\ exit \in {Nothing, 0, 1, 75} /\ (exit = Nothing <=> pc # "gone")
  /\ starts \in 0..MaxStarts
  /\ pc \in {"serving", "decode"} => mode = "daemon"
  /\ pc = "decode" => request \in Requests
  /\ pc \notin {"serving", "leaving", "gone"} => answer.kind = "none"
  /\ pc = "setup" /\ mode # "one_shot" => request = Nothing

(* What was read, before setup or after it. *)
Working ==
  \/ pc \in {"execute", "prove", "verify", "compare"}
  \/ pc = "setup" /\ mode = "one_shot" /\ inputs # Nothing
  => request \in Requests /\ inputs = Asked /\ Decodable(inputs)

(* The proof at hand is one the prover made for these inputs. *)
Held ==
  pc \in {"verify", "compare"} =>
    /\ proof \in ProofsFor(Guest(network, IntoStdin(inputs)))
    /\ pc = "compare" => proof.valid

Proven == answer.kind = "proof" => Decodable(Asked)

(* What a dropped future leaves: the process only reports it and ends, and *)
(* nothing but a timeout was, or will be, its last answer.                 *)
TimeoutToldOf == mode = "daemon" /\ request # Nothing => answer.code \in Timeouts

Dropped ==
  /\ pc \in Timeouts \cup {"leaving"} => polluted
  /\ polluted => pc \in Timeouts \cup {"leaving", "gone"}
  /\ polluted => answer.kind = "none" \/ answer.code \in Timeouts
  /\ pc = "leaving" \/ exit = 75 => polluted /\ TimeoutToldOf

ProcessInv ==
  /\ Places /\ Working /\ Held /\ Proven
  /\ ProofMatchesRequest /\ HostGuestAgree /\ Dropped

(* Every step of a process. *)
ProcessNext ==
  \/ \E m \in Mode, net \in Networks : Start(m, net)
  \/ ProcessStep
  \/ ReceiveGarbage \/ StdinCloses \/ (\E r \in Requests : Receive(r)) \/ Compare
  \/ Fresh /\ exit' = 0 /\ UNCHANGED <<mode, network, pc>>

LEMMA PlacesStep == ASSUME ProcessInv, ProcessNext PROVE Places'
<1> USE NothingAssumption, StartsAssumption DEF Places
<1>0. Places /\ Working
  BY DEF ProcessInv
<1>1. ASSUME NEW m \in Mode, NEW net \in Networks, Start(m, net) PROVE Places'
  BY <1>0, <1>1 DEF Start, Fresh, NoAnswer, Pc
<1>2. CASE BadArguments \/ SetupFails \/ ExitAfterTimeout \/ Crash
  <2>1. /\ pc' = "gone" /\ exit' \in {1, 75} /\ answer'.kind \in {answer.kind, "error"}
        /\ UNCHANGED <<mode, network, request, starts>>
    BY <1>2 DEF BadArguments, SetupFails, ExitAfterTimeout, Crash, Exit, Failure
  <2> QED BY <1>0, <2>1 DEF Pc
<1>3. ASSUME NEW r \in Requests, ReadArguments(r) PROVE Places'
  BY <1>0, <1>3 DEF ReadArguments, Exit, Failure, Pc
<1>4. CASE SetupSucceeds
  <2>1. UNCHANGED <<mode, network, request, starts>> /\ pc = "setup"
    BY <1>4 DEF SetupSucceeds, ReadyForSetup
  <2>2. CASE mode = "one_shot"
    BY <1>0, <1>4, <2>1, <2>2 DEF SetupSucceeds, Pc
  <2>3. CASE mode = "vkey_only"
    BY <1>0, <1>4, <2>1, <2>3 DEF SetupSucceeds, Exit, Pc
  <2>4. CASE mode = "daemon"
    BY <1>0, <1>4, <2>1, <2>4 DEF SetupSucceeds, Pc
  <2> QED BY <1>0, <2>2, <2>3, <2>4 DEF Mode
<1>5. CASE ReceiveGarbage \/ StdinCloses
  BY <1>0, <1>5 DEF ReceiveGarbage, StdinCloses, Exit, Failure, Pc
<1>6. ASSUME NEW r \in Requests, Receive(r) PROVE Places'
  BY <1>0, <1>6 DEF Receive, NoAnswer, Pc
<1>7. ASSUME NEW code, Fail(code), pc # "gone", pc # "setup" PROVE Places'
  BY <1>0, <1>7 DEF Fail, Exit, Failure, Pc
<1>8. ASSUME NEW code \in Timeouts, TimeOut(code), pc \in {"execute", "prove"} PROVE Places'
  BY <1>0, <1>8 DEF TimeOut, Timeouts, Pc
<1>9. CASE Decode
  BY <1>0, <1>7, <1>9 DEF Decode, Pc
<1>10. CASE Execute
  BY <1>0, <1>7, <1>8, <1>10 DEF Execute, Timeouts, Pc
<1>11. CASE Prove
  BY <1>0, <1>7, <1>8, <1>11 DEF Prove, Timeouts, Pc
<1>12. CASE Verify
  BY <1>0, <1>7, <1>12 DEF Verify, Pc
<1>13. CASE Compare
  BY <1>0, <1>7, <1>13 DEF Compare, Exit, Pc
<1>14. CASE Fresh /\ exit' = 0 /\ UNCHANGED <<mode, network, pc>>
  BY <1>0, <1>14 DEF Fresh, NoAnswer
<1>15. CASE SetupTimesOut
  BY <1>0, <1>15 DEF SetupTimesOut, ReadyForSetup, Pc
<1>16. CASE ReportTimeout
  <2>1. pc \in Timeouts /\ UNCHANGED <<mode, network, request, starts>>
    BY <1>16 DEF ReportTimeout
  <2>2. \/ answer'.kind = "error" /\ pc' = "leaving" /\ UNCHANGED exit
        \/ UNCHANGED answer /\ pc' = "gone" /\ exit' = 1
    BY <1>16 DEF ReportTimeout, AfterReport, Failure, Exit
  <2> QED BY <1>0, <2>1, <2>2 DEF Timeouts, Pc
<1> QED
  BY <1>1, <1>2, <1>3, <1>4, <1>5, <1>6, <1>9, <1>10, <1>11, <1>12, <1>13, <1>14, <1>15, <1>16
     DEF ProcessNext, ProcessStep

LEMMA WorkingStep == ASSUME ProcessInv, ProcessNext PROVE Working'
<1> USE NothingAssumption DEF Working
<1>0. Places /\ Working
  BY DEF ProcessInv
<1>1. ASSUME NEW m \in Mode, NEW net \in Networks, Start(m, net) PROVE Working'
  BY <1>1 DEF Start, Fresh
<1>2. CASE pc' \in {"gone", "serving", "leaving"}
  BY <1>2
<1>3. ASSUME NEW r \in Requests, ReadArguments(r) PROVE Working'
  <2>1. CASE Decodable(ArgsInputs(r))
    BY <1>3, <2>1 DEF ReadArguments, Asked
  <2>2. CASE ~Decodable(ArgsInputs(r))
    BY <1>3, <2>2 DEF ReadArguments, Exit
  <2> QED BY <2>1, <2>2
<1>4. CASE SetupSucceeds
  <2>1. CASE mode = "one_shot"
    BY <1>0, <1>4, <2>1 DEF SetupSucceeds, ReadyForSetup, Asked
  <2>2. CASE mode # "one_shot"
    BY <1>0, <1>4, <2>2 DEF SetupSucceeds, Exit, Places, Mode
  <2> QED BY <2>1, <2>2
<1>5. ASSUME NEW r \in Requests, Receive(r) PROVE Working'
  BY <1>5 DEF Receive
<1>6. CASE Decode
  <2>1. CASE Decodable(DaemonInputs(request))
    BY <1>0, <1>6, <2>1 DEF Decode, Places, Asked
  <2>2. CASE ~Decodable(DaemonInputs(request))
    BY <1>0, <1>6, <2>2 DEF Decode, Places, Fail, Exit
  <2> QED BY <2>1, <2>2
<1>7. CASE /\ pc \in {"execute", "prove", "verify"}
           /\ UNCHANGED <<mode, request, inputs>>
  BY <1>0, <1>7 DEF Asked
<1>8. CASE Execute \/ Prove \/ Verify
  <2>1. UNCHANGED <<mode, request, inputs>> /\ pc \in {"execute", "prove", "verify"}
    BY <1>8 DEF Execute, Prove, Verify, Fail, TimeOut
  <2> QED BY <1>7, <2>1
<1>9. CASE Compare
  <2>1. pc' \in {"gone", "serving"}
    BY <1>9 DEF Compare, Fail, Exit
  <2> QED BY <1>2, <2>1
<1>10. CASE \/ BadArguments \/ SetupFails \/ SetupTimesOut \/ ReportTimeout \/ ExitAfterTimeout
            \/ Crash \/ ReceiveGarbage \/ StdinCloses
  BY <1>2, <1>10
     DEF BadArguments, SetupFails, SetupTimesOut, ReportTimeout, AfterReport, ExitAfterTimeout,
         Crash, ReceiveGarbage, StdinCloses, Exit
<1>11. CASE Fresh /\ exit' = 0 /\ UNCHANGED <<mode, network, pc>>
  BY <1>2, <1>11 DEF Fresh
<1> QED
  BY <1>1, <1>3, <1>4, <1>5, <1>6, <1>8, <1>9, <1>10, <1>11 DEF ProcessNext, ProcessStep

(* Where a step can lead to the last two phases. *)
LEMMA HeldStep == ASSUME ProcessInv, ProcessNext PROVE Held'
<1> USE DEF Held
<1>0. Places /\ Held
  BY DEF ProcessInv
<1>1. CASE pc' \notin {"verify", "compare"}
  BY <1>1
<1>2. CASE Prove
  BY <1>1, <1>2 DEF Prove, Fail, TimeOut, Timeouts, Exit
<1>3. CASE Verify
  BY <1>0, <1>3 DEF Verify, Fail, Exit
<1>4. CASE Compare \/ Execute \/ Decode
  BY <1>1, <1>4 DEF Compare, Execute, Decode, Fail, TimeOut, Timeouts, Exit
<1>5. CASE SetupSucceeds
  BY <1>0, <1>1, <1>5 DEF SetupSucceeds, Exit, Places, Mode
<1>6. CASE \E r \in Requests : ReadArguments(r)
  BY <1>1, <1>6 DEF ReadArguments, Exit
<1>7. CASE \/ BadArguments \/ SetupFails \/ SetupTimesOut
           \/ ReportTimeout \/ ExitAfterTimeout \/ Crash \/ ReceiveGarbage \/ StdinCloses
           \/ (\E r \in Requests : Receive(r)) \/ (\E m \in Mode, net \in Networks : Start(m, net))
           \/ Fresh /\ UNCHANGED pc
  BY <1>1, <1>7
     DEF BadArguments, SetupFails, SetupTimesOut, ReportTimeout, AfterReport, ExitAfterTimeout,
         Crash, ReceiveGarbage, StdinCloses, Receive, Start, Fresh, Exit
<1> QED BY <1>2, <1>3, <1>4, <1>5, <1>6, <1>7 DEF ProcessNext, ProcessStep

LEMMA DroppedStep == ASSUME ProcessInv, ProcessNext PROVE Dropped'
<1> USE NothingAssumption DEF Dropped, TimeoutToldOf, Timeouts
<1>0. Places /\ Dropped
  BY DEF ProcessInv
<1>1. CASE Fresh
  <2>1. ~polluted' /\ pc' \in {"setup", "gone"} /\ exit' # 75
    BY <1>1 DEF ProcessNext, Start, Fresh, ProcessStep, BadArguments, ReadArguments, ReadyForSetup,
                SetupSucceeds, SetupFails, SetupTimesOut, Decode, Execute, Prove, Verify,
                ReportTimeout, ExitAfterTimeout, Crash, ReceiveGarbage, StdinCloses, Receive, Compare
  <2> QED BY <2>1
<1>2. CASE /\ pc \in {"setup", "serving", "decode", "execute", "prove", "verify", "compare"}
           /\ pc' \in {"setup", "serving", "decode", "execute", "prove", "verify", "compare", "gone"}
           /\ UNCHANGED polluted /\ exit' \in {exit, 0, 1}
  <2>1. exit # 75
    BY <1>0, <1>2
  <2> QED BY <1>0, <1>2, <2>1
<1>3. ASSUME NEW code, Fail(code), pc \in {"decode", "execute", "prove", "verify", "compare"}
      PROVE  Dropped'
  BY <1>2, <1>3 DEF Fail, Exit
<1>4. ASSUME NEW code \in Timeouts, TimeOut(code), pc \in {"execute", "prove"} PROVE Dropped'
  <2>1. exit' # 75 /\ answer'.kind = "none"
    BY <1>0, <1>4 DEF TimeOut, Places
  <2> QED BY <1>4, <2>1 DEF TimeOut
<1>5. CASE SetupTimesOut
  <2>1. answer.kind = "none" /\ (mode = "daemon" => request = Nothing)
    BY <1>0, <1>5 DEF SetupTimesOut, ReadyForSetup, Places
  <2> QED BY <1>5, <2>1 DEF SetupTimesOut
<1>6. CASE ReportTimeout
  <2>1. CASE answer' = Failure(pc) /\ pc' = AfterReport
    BY <1>0, <1>6, <2>1 DEF ReportTimeout, Failure, AfterReport
  <2>2. CASE Exit(1) /\ UNCHANGED answer
    BY <1>0, <1>6, <2>2 DEF ReportTimeout, Exit
  <2> QED BY <1>6, <2>1, <2>2 DEF ReportTimeout
<1>7. CASE ExitAfterTimeout \/ Crash
  BY <1>0, <1>7 DEF ExitAfterTimeout, Crash, Exit
<1>8. CASE BadArguments \/ (\E r \in Requests : ReadArguments(r)) \/ SetupFails
  BY <1>2, <1>8 DEF BadArguments, ReadArguments, SetupFails, ReadyForSetup, Exit
<1>9. CASE SetupSucceeds
  BY <1>0, <1>2, <1>9 DEF SetupSucceeds, ReadyForSetup, Exit, Places, Mode
<1>10. CASE Decode \/ Execute \/ Prove \/ Verify
  BY <1>2, <1>3, <1>4, <1>10 DEF Decode, Execute, Prove, Verify
<1>11. CASE Compare
  BY <1>2, <1>3, <1>11 DEF Compare, Exit
<1>12. CASE ReceiveGarbage \/ StdinCloses \/ (\E r \in Requests : Receive(r))
  BY <1>2, <1>12 DEF ReceiveGarbage, StdinCloses, Receive, Exit
<1> QED
  BY <1>1, <1>5, <1>6, <1>7, <1>8, <1>9, <1>10, <1>11, <1>12 DEF ProcessNext, ProcessStep, Start

(* What the guest of this process commits for the inputs at hand. *)
LEMMA AtWork ==
  ASSUME ProcessInv, pc \in {"execute", "prove", "verify", "compare"}
  PROVE  /\ inputs = Asked /\ Decodable(Asked) /\ network \in Networks
         /\ Guest(network, IntoStdin(inputs)) =
              IF WellSized(Asked) /\ Consistent(network, Asked) THEN {PublicValue(network, Asked)} ELSE {}
<1>1. inputs = Asked /\ Decodable(Asked) /\ network \in Networks
  BY DEF ProcessInv, Working, Places
<1>2. PICK read : Asked = Inputs(request, read)
  BY AskedIsInputs
<1> QED BY <1>1, <1>2, GuestCommits

Truthful == ProofMatchesRequest /\ Proven /\ HostGuestAgree

LEMMA TruthfulStep == ASSUME ProcessInv, ProcessNext PROVE Truthful'
<1> USE DEF Truthful
<1>0. Places /\ Truthful
  BY DEF ProcessInv
<1>1. CASE UNCHANGED <<mode, network, request, proof, answer>>
  BY <1>0, <1>1 DEF ProofMatchesRequest, Proven, HostGuestAgree, Asked
<1>2. CASE /\ answer'.kind # "proof"
           /\ answer'.kind = "error" => answer'.code \notin {"GUEST_EXIT", "MISMATCH"}
  BY <1>2 DEF ProofMatchesRequest, Proven, HostGuestAgree
<1>3. ASSUME NEW code \in {"PROOF_FAILURE", "INVALID_INPUT"}, Fail(code) PROVE Truthful'
  BY <1>2, <1>3 DEF Fail, Failure
<1>5. CASE pc \notin {"serving", "leaving", "gone"} /\ UNCHANGED answer
  BY <1>0, <1>2, <1>5 DEF Places
<1>4. ASSUME NEW code, TimeOut(code), pc \in {"execute", "prove"} PROVE Truthful'
  BY <1>4, <1>5 DEF TimeOut
<1>6. CASE Decode
  BY <1>3, <1>5, <1>6 DEF Decode
<1>7. CASE Execute
  <2>1. CASE Guest(network, IntoStdin(inputs)) = {} /\ Fail("GUEST_EXIT")
    <3>1. ~(WellSized(Asked) /\ Consistent(network, Asked))
      BY <1>7, <2>1, AtWork DEF Execute
    <3>2. UNCHANGED <<mode, network, request>> /\ answer' = Failure("GUEST_EXIT")
      BY <2>1 DEF Fail
    <3> QED BY <3>1, <3>2 DEF Failure, ProofMatchesRequest, Proven, HostGuestAgree, Asked
  <2> QED BY <1>3, <1>4, <1>5, <1>7, <2>1 DEF Execute
<1>8. CASE Prove \/ Verify
  BY <1>3, <1>4, <1>5, <1>8 DEF Prove, Verify
<1>9. CASE Compare
  <2>1. pc = "compare" /\ UNCHANGED <<mode, network, request>>
    BY <1>9 DEF Compare, Fail
  <2>2. proof.valid /\ proof.value \in Guest(network, IntoStdin(inputs))
    <3> DEFINE values == Guest(network, IntoStdin(inputs))
    <3>1. proof.valid /\ proof \in ProofsFor(values)
      BY <2>1 DEF ProcessInv, Held
    <3> HIDE DEF values
    <3>2. \A x \in ProofsFor(values) : x.valid => x.value \in values
      BY DEF ProofsFor
    <3>3. proof.value \in values
      BY <3>1, <3>2
    <3> QED BY <3>1, <3>3 DEF values
  <2>3. /\ inputs = Asked /\ Decodable(Asked) /\ WellSized(Asked) /\ Consistent(network, Asked)
        /\ proof.value = PublicValue(network, Asked)
    BY <2>1, <2>2, AtWork
  <2>4. answer' = [kind |-> "proof", code |-> "none"] /\ UNCHANGED proof
    BY <1>9, <2>3 DEF Compare, ExpectedPublicValues
  <2> QED BY <2>1, <2>2, <2>3, <2>4 DEF ProofMatchesRequest, Proven, HostGuestAgree, Asked
<1>10. CASE SetupSucceeds
  <2>1. CASE mode = "one_shot"
    BY <1>5, <1>10, <2>1 DEF SetupSucceeds, ReadyForSetup
  <2>2. CASE mode # "one_shot"
    <3>1. mode \in {"vkey_only", "daemon"}
      BY <1>0, <2>2 DEF Places, Mode
    <3>2. answer' \in {[kind |-> "vkey", code |-> "none"], [kind |-> "identity", code |-> "none"]}
      BY <1>10, <3>1 DEF SetupSucceeds
    <3> QED BY <1>2, <3>2
  <2> QED BY <2>1, <2>2
<1>11. CASE \E r \in Requests : ReadArguments(r)
  BY <1>2, <1>5, <1>11 DEF ReadArguments, Failure
<1>12. CASE SetupFails \/ SetupTimesOut \/ StdinCloses \/ ExitAfterTimeout \/ Crash
  BY <1>1, <1>12 DEF SetupFails, SetupTimesOut, StdinCloses, ExitAfterTimeout, Crash
<1>15. CASE ReportTimeout
  <2>1. CASE answer' = Failure(pc)
    BY <1>2, <1>15, <2>1 DEF ReportTimeout, Failure, Timeouts
  <2> QED BY <1>1, <1>15, <2>1 DEF ReportTimeout
<1>13. CASE BadArguments \/ ReceiveGarbage
  BY <1>2, <1>13 DEF BadArguments, ReceiveGarbage, Failure
<1>14. CASE (\E r \in Requests : Receive(r)) \/ Fresh
  BY <1>2, <1>14 DEF Receive, Fresh, NoAnswer
<1> QED
  BY <1>6, <1>7, <1>8, <1>9, <1>10, <1>11, <1>12, <1>13, <1>14, <1>15
     DEF ProcessNext, ProcessStep, Start

LEMMA ProcessInvStep == ProcessInv /\ (ProcessNext \/ UNCHANGED processVars) => ProcessInv'
<1>1. ASSUME ProcessInv, ProcessNext PROVE ProcessInv'
  BY <1>1, PlacesStep, WorkingStep, HeldStep, TruthfulStep, DroppedStep DEF ProcessInv, Truthful
<1>2. ASSUME ProcessInv, UNCHANGED processVars PROVE ProcessInv'
  BY <1>2
     DEF processVars, ProcessInv, Places, Working, Held, Proven, ProofMatchesRequest, HostGuestAgree,
         Dropped, TimeoutToldOf, Asked
<1> QED BY <1>1, <1>2

LEMMA ProcessInvInit == ProcessInit => ProcessInv
BY NothingAssumption, StartsAssumption
   DEF ProcessInit, ProcessInv, Places, Working, Held, Proven, ProofMatchesRequest, HostGuestAgree,
       Dropped, TimeoutToldOf, Timeouts, NoAnswer, Mode, Networks, Pc
=============================================================================
