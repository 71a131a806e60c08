----------------------------- MODULE DramCommands -----------------------------
(***************************************************************************)
(* The DRAM commands of mem_sim: their classes (dram/semantics.cpp), when  *)
(* the state of a bank or of the channel makes one legal                   *)
(* (dram/state.cpp), and what one does to the banks                        *)
(* (controller/executor.cpp).  The minimum distances between commands are  *)
(* not modelled here: a legal command is ready at some later time.         *)
(***************************************************************************)
EXTENDS Integers

None  == "none"
NoRow == -1

DataCommands    == {"RD", "WR", "RDA", "WRA"}
CasCommands     == {"CASRD", "CASWR"}
ColumnCommands  == DataCommands \union CasCommands
OpeningCommands == {"ACT", "ACT1"}
AllBankCommands == {"PREAB", "REFAB", "RFMAB"}
\* REFDB, like REFPB, names one bank; it refreshes its partner too.
PerBankRefresh  == {"REFPB", "REFDB", "RFMPB"}
IdleCommands    == {"MRW", "WCKTRAIN", "DVFS", "PDE", "SREFEN"}
ExitCommands    == {"PDX", "SREFEX"}

\* Commands whose meta data say "closing".
ClosingCommands == {"PREPB", "PREAB", "RDA", "WRA"}

ReadCommandFor(policy)  == IF policy = "ClosedPage" THEN "RDA" ELSE "RD"
WriteCommandFor(policy) == IF policy = "ClosedPage" THEN "WRA" ELSE "WR"

Bank == [row : Int, activating : BOOLEAN]

ClosedBank    == [row |-> NoRow, activating |-> FALSE]
Busy(bank)    == bank.activating \/ bank.row # NoRow
Opened(bank)  == ~bank.activating /\ bank.row # NoRow

\* check_command_state on the snapshot that state_ok takes: lpddr tells the
\* two families apart (split activate, WCK), down and self are the two forms
\* of low power, owner says that the request sent the ACT1 of this bank.
Legal(cmd, s) ==
    CASE cmd = "ACT"                -> ~s.lpddr /\ ~Busy(s.bank)
      [] cmd = "ACT1"               -> s.lpddr /\ ~Busy(s.bank)
      [] cmd = "ACT2"               -> s.lpddr /\ s.bank.activating /\ s.owner
      [] cmd = "PREPB"              -> Opened(s.bank)
      [] cmd = "PREAB"              -> s.any_busy
      [] cmd \in CasCommands        -> s.lpddr /\ s.row_hit /\ ~s.retrain
      [] cmd \in DataCommands       -> s.row_hit /\ (s.lpddr => s.wck_ready /\ ~s.retrain)
      [] cmd \in PerBankRefresh     -> ~Busy(s.bank)
      [] cmd \in {"REFAB", "RFMAB"} -> ~s.any_busy
      [] cmd \in {"MRW", "MRR", "PDE"} -> ~s.any_busy /\ ~s.down /\ ~s.self
      [] cmd = "WCKSYNC"            -> s.lpddr /\ ~s.down /\ ~s.self /\ ~s.retrain
      [] cmd \in {"WCKTRAIN", "DVFS"} -> s.lpddr /\ ~s.any_busy /\ ~s.down /\ ~s.self
      [] cmd = "SREFEN"             -> ~s.any_busy /\ ~s.self
      [] cmd = "PDX"                -> s.down /\ ~s.self
      [] cmd = "SREFEX"             -> s.self
      [] cmd = "ECCSCRUB"           -> s.ras /\ ~s.any_busy /\ ~s.down /\ ~s.self
      [] cmd = "RASERR"             -> s.ras

\* CommandExecutor::issue on the banks.
Executed(banks, cmd, b, row) ==
    CASE cmd \in {"ACT", "ACT2"}        -> [banks EXCEPT ![b] = [row |-> row, activating |-> FALSE]]
      [] cmd = "ACT1"                   -> [banks EXCEPT ![b].activating = TRUE]
      [] cmd \in {"PREPB", "RDA", "WRA"} -> [banks EXCEPT ![b] = ClosedBank]
      [] cmd = "PREAB"                  -> [x \in DOMAIN banks |-> ClosedBank]
      [] OTHER                          -> banks
=============================================================================
