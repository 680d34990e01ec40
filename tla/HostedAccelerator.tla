-------------------------- MODULE HostedAccelerator -------------------------
(***************************************************************************)
(* The accelerator behind its register slave: in every clock cycle the     *)
(* host, the slave and the core of Accelerator take a step together.       *)
(* Accelerator loads a program in one step and starts it in another; here  *)
(* a program arrives word by word over the bus and the run is started by   *)
(* the pulse of CTRL.                                                      *)
(***************************************************************************)
EXTENDS Accelerator, HostInterface

CONSTANT POLLS   \* the host polls STATUS for the end of a run

ASSUME PollAssumption == POLLS \in BOOLEAN

hostedVars == <<vars, slaveVars>>

HostedInit == Init /\ SlaveInit

(* STATUS. *)
Busy ==
  \/ StartPulse
  \/ sb.rd = "BUSY" \/ sb.wr = "BUSY" \/ sb.array = "BUSY" \/ sb.vector = "BUSY"
  \/ Issuing
Status == [busy |-> Busy, done |-> Issuing /\ OnTheWires.op = "END"]

(* The cycle of start_pulse.  Nothing keeps the host from raising it while a
   run is under way: the window is rewound, the scoreboard is not cleared. *)
StartCycle(g) ==
  /\ FifoRestart
  /\ sb' = NextScoreboard(sb, StartEffect(IssueEffect(sb, OnTheWires)), Events)
  /\ Book(OnTheWires, g)
  /\ Datapath(OnTheWires, g)
  /\ loaded' = FALSE
  /\ UNCHANGED <<runs, snap>>

(* The cycle that writes PROG_LEN, after the words: from here on what the
   window can fetch is the program that has been written. *)
ArrivalCycle(g) ==
  /\ FifoProgram(Visible(mem, wr.data.num))
  /\ sb' = NextScoreboard(sb, IssueEffect(sb, OnTheWires), Events)
  /\ Book(OnTheWires, g)
  /\ Datapath(OnTheWires, g)
  /\ loaded' = TRUE
  /\ runs' = runs + 1
  /\ snap' = Arch

CoreCycle(g) ==
  CASE StartPulse -> StartCycle(g)
    [] Writing("PROG_LEN") /\ ~StartPulse -> ArrivalCycle(g)
    [] OTHER -> Cycle(g)

(* The host turns to its next program, one the machine can run as it is.  The
   steps of a host that polled too early and writes into the run under way are
   left out: IdleWhenNotBusy is where it goes wrong. *)
NextProgram ==
  /\ host.phase = "free"
  /\ runs < MAX_RUNS
  /\ POLLS => sb.accel = "IDLE"
  /\ \E p \in Programs :
       /\ CanRun(Arch, p)
       /\ host' = [host EXCEPT !.phase = "write", !.todo = Script(p), !.prog = p,
                               !.over = FALSE]
  /\ UNCHANGED <<vars, wr, rd, reg, mem>>

Clock(g, h) ==
  /\ CoreCycle(g)
  /\ wr' = NextWr(h)
  /\ reg' = NextReg
  /\ mem' = NextMem(Busy)
  /\ rd' = NextRd(h)
  /\ host' = NextHost(h, Status, POLLS)

HostedNext == NextProgram \/ \E g \in Go, h \in Bus : Clock(g, h)

HostedSpec == HostedInit /\ [][HostedNext]_hostedVars

(* Accelerator's fairness, and a host that completes what it began. *)
HostedFairness ==
  /\ WF_hostedVars(\E g \in Go, h \in Bus : Clock(g, h))
  /\ WF_hostedVars(\E g \in Go, h \in Bus : g.rd /\ Clock(g, h))
  /\ WF_hostedVars(\E g \in Go, h \in Bus : g.wr /\ Clock(g, h))
  /\ WF_hostedVars(\E g \in Go, h \in Bus : g.ar /\ Clock(g, h))
  /\ WF_hostedVars(\E g \in Go, h \in Bus : h.aw /\ h.w /\ h.b /\ Clock(g, h))

FairHostedSpec == HostedSpec /\ HostedFairness
-----------------------------------------------------------------------------
(* Whenever a run starts and as long as it lasts, the window reads exactly the
   program the host wrote, at the bases it configured: no word is lost to the
   !busy gate, misplaced by the address register or changed under the run. *)
ProgramInPlace ==
  StartPulse \/ sb.accel = "BUSY" =>
    /\ Visible(mem, reg["PROG_LEN"].num) = host.prog /\ rom = host.prog
    /\ \A k \in Base : reg[BaseRegister[k]].num = CSR[k]

(* Driven through the registers, the core does what Accelerator says: every
   program arrives whole and with the machine at rest, and every START write
   starts exactly one run. *)
DrivesAccelerator == Spec

(* Once done has been seen, the accelerator is quiet until the next start: no
   engine is still at work on what the host is about to read or replace. *)
DoneMeansQuiet ==
  host.over /\ ~StartPulse =>
    ~Busy /\ rdm.st = "IDLE" /\ wrm.st = "IDLE" /\ vec.left = 0 /\ arr.pm # "RUNNING"

(* Every program the host begins to write is run to its end. *)
ProgramsEnd == host.phase = "write" ~> host.phase = "free"

(* What the documents promise a polling host: when BUSY has fallen after a
   start, the run is over ("Poll STATUS[0] -- wait until BUSY deasserts"). *)
IdleWhenNotBusy == host.phase = "free" => sb.accel = "IDLE"
=============================================================================
