--------------------------- MODULE WorkloadProofs ---------------------------
(***************************************************************************)
(* The phase 2 test, however often it repeats p8root and however many PCBs *)
(* there are: as long as no SYS2 is refused for want of one, no check      *)
(* fails, and when nothing can happen any more everybody has ended.        *)
(***************************************************************************)
EXTENDS Workload, FiniteSetTheorems, SequenceTheorems, TLAPS

----------------------------------------------------------------------------
(* The processes. *)

p1 == <<"p1", 0>>
p2 == <<"p2", 0>>
p3 == <<"p3", 0>>
p4 == <<"p4", 0>>
p4b == <<"p4b", 0>>
p5 == <<"p5", 0>>
p6 == <<"p6", 0>>
p7 == <<"p7", 0>>

Round == 1..Rounds

\* The process of p8root's family with this role in round r.
Member(role, r) == <<role, r>>

LeafRoles == {"leaf1", "leaf2", "leaf3"}
OnceRoles == {"p1", "p2", "p3", "p4", "p4b", "p5", "p6", "p7"}

Role(p) == p[1]
Turn(p) == p[2]

\* p's program and its length.
Program(p) == Code[p[1]]
Size(p) == Len(Program(p))

\* The names tell the processes apart.
LEMMA Names ==
  /\ p1 \in Proc /\ Role(p1) = "p1" /\ Turn(p1) = 0
  /\ p2 \in Proc /\ Role(p2) = "p2" /\ Turn(p2) = 0
  /\ p3 \in Proc /\ Role(p3) = "p3" /\ Turn(p3) = 0
  /\ p4 \in Proc /\ Role(p4) = "p4" /\ Turn(p4) = 0
  /\ p4b \in Proc /\ Role(p4b) = "p4b" /\ Turn(p4b) = 0
  /\ p5 \in Proc /\ Role(p5) = "p5" /\ Turn(p5) = 0
  /\ p6 \in Proc /\ Role(p6) = "p6" /\ Turn(p6) = 0
  /\ p7 \in Proc /\ Role(p7) = "p7" /\ Turn(p7) = 0
  /\ \A role, r : Role(Member(role, r)) = role /\ Turn(Member(role, r)) = r
  /\ \A role \in P8Roles, r \in Round : Member(role, r) \in Proc
  /\ NULL \notin Proc /\ First = p1
  BY DEF p1, p2, p3, p4, p4b, p5, p6, p7, Member, Role, Turn, Proc, P8Roles, Round, NULL,
         First

\* Every process lives once or belongs to a round.
LEMMA WhoIsWho ==
  ASSUME NEW p \in Proc
  PROVE  \/ p \in {p1, p2, p3, p4, p4b, p5, p6, p7}
         \/ Role(p) \in P8Roles /\ Turn(p) \in Round /\ p = Member(Role(p), Turn(p))
  BY DEF p1, p2, p3, p4, p4b, p5, p6, p7, Member, Role, Turn, Proc, P8Roles, Round

\* A role of rounds says who a process is, but for its round.
LEMMA Roles ==
  /\ \A p \in Proc : /\ Role(p) = "p1" => p = p1
                     /\ Role(p) = "p2" => p = p2
                     /\ Role(p) = "p3" => p = p3
                     /\ Role(p) = "p4" => p = p4
                     /\ Role(p) = "p4b" => p = p4b
                     /\ Role(p) = "p5" => p = p5
                     /\ Role(p) = "p6" => p = p6
                     /\ Role(p) = "p7" => p = p7
                     /\ Role(p) \in P8Roles => Turn(p) \in Round /\ p = Member(Role(p), Turn(p))
                     /\ Role(p) \in OnceRoles \cup P8Roles
  <1> SUFFICES ASSUME NEW p \in Proc
               PROVE  /\ Role(p) = "p1" => p = p1
                      /\ Role(p) = "p2" => p = p2
                      /\ Role(p) = "p3" => p = p3
                      /\ Role(p) = "p4" => p = p4
                      /\ Role(p) = "p4b" => p = p4b
                      /\ Role(p) = "p5" => p = p5
                      /\ Role(p) = "p6" => p = p6
                      /\ Role(p) = "p7" => p = p7
                      /\ Role(p) \in P8Roles => Turn(p) \in Round /\ p = Member(Role(p), Turn(p))
                      /\ Role(p) \in OnceRoles \cup P8Roles
    OBVIOUS
  <1>1. CASE p \in {p1, p2, p3, p4, p4b, p5, p6, p7}
    BY <1>1, Names DEF OnceRoles, P8Roles
  <1>2. CASE Role(p) \in P8Roles /\ Turn(p) \in Round /\ p = Member(Role(p), Turn(p))
    BY <1>2 DEF P8Roles
  <1> QED
    BY <1>1, <1>2, WhoIsWho

----------------------------------------------------------------------------
(* The programs: which places do what. *)

\* P of semaphore s, at place i of p's program.
PAt(p, i, s) ==
  \/ Role(p) = "p1" /\ \/ i = 5 /\ s = "endp2"
                       \/ i = 8 /\ s = "endp3"
                       \/ i = 13 /\ s = "endp5"
                       \/ i = 14 /\ s = "blkp4"
                       \/ (\E r \in Round : i = 14 + 2 * r) /\ s = "endp8"
  \/ Role(p) = "p2" /\ \/ i = 1 /\ s = "startp2"
                       \/ i = 3 /\ s = "s"
  \/ Role(p) = "p4" /\ \/ i = 3 /\ s = "blkp4"
                       \/ i \in {4, 6} /\ s = "synp4"
  \/ Role(p) = "p4b" /\ i = 3 /\ s = "blkp4"
  \/ Role(p) = "p5" /\ i = 7 /\ s = "endp4"
  \/ Role(p) = "p8root" /\ \/ i = 1 /\ s = "blkp8"
                           \/ i \in 4..7 /\ s = "endcreate"
  \/ Role(p) \in {"child1", "child2"} /\ i = 3 /\ s = "blkp8"
  \/ Role(p) \in LeafRoles /\ i = 2 /\ s = "blkp8"
  \/ Role(p) = "curiousleaf" /\ i = 4 /\ s = "blkp8"

VAt(p, i, s) ==
  \/ Role(p) = "p1" /\ \/ i = 1 /\ s = "testsem"
                       \/ i = 4 /\ s = "startp2"
  \/ Role(p) = "p2" /\ \/ i = 2 /\ s = "s"
                       \/ i = 7 /\ s = "endp2"
  \/ Role(p) = "p3" /\ i = 4 /\ s = "endp3"
  \/ Role(p) = "p4" /\ \/ i = 2 /\ s = "synp4"
                       \/ i = 8 /\ s = "endp4"
  \/ Role(p) = "p4b" /\ i = 2 /\ s = "synp4"
  \/ Role(p) = "p5" /\ \/ i = 9 /\ s = "blkp4"
                       \/ i = 10 /\ s = "endp5"
  \/ Role(p) = "p8root" /\ \/ i = 8 /\ s = "blkp8"
                           \/ i = 9 /\ s = "endp8"
  \/ Role(p) \in {"child1", "child2"} /\ i = 4 /\ s = "blkp8"
  \/ Role(p) \in LeafRoles /\ \/ i = 1 /\ s = "endcreate"
                              \/ i = 3 /\ s = "blkp8"
  \/ Role(p) = "curiousleaf" /\ \/ i = 3 /\ s = "endcreate"
                                \/ i = 5 /\ s = "blkp8"

\* SYS2 of process c.
CreateAt(p, i, c) ==
  \/ Role(p) = "p1" /\ \/ i = 3 /\ c = p2
                       \/ i = 7 /\ c = p3
                       \/ i = 9 /\ c = p4
                       \/ i = 10 /\ c = p5
                       \/ i = 11 /\ c = p6
                       \/ i = 12 /\ c = p7
                       \/ (\E r \in Round : i = 13 + 2 * r /\ c = Member("p8root", r))
  \/ Role(p) = "p4" /\ i = 5 /\ c = p4b
  \/ Role(p) = "p8root" /\ \/ i = 2 /\ c = Member("child1", Turn(p))
                           \/ i = 3 /\ c = Member("child2", Turn(p))
  \/ Role(p) = "child1" /\ i = 2 /\ c = Member("intermediate", Turn(p))
  \/ Role(p) = "intermediate" /\ \/ i = 1 /\ c = Member("curiousleaf", Turn(p))
                                 \/ i = 2 /\ c = Member("leaf1", Turn(p))
  \/ Role(p) = "child2" /\ \/ i = 1 /\ c = Member("leaf2", Turn(p))
                           \/ i = 2 /\ c = Member("leaf3", Turn(p))

\* The end: SYS3, or a trap nobody has a handler for.
EndAt(p, i) ==
  \/ Role(p) = "p1" /\ i = 15 + 2 * Rounds
  \/ Role(p) = "p2" /\ i = 8
  \/ Role(p) = "p3" /\ i = 5
  \/ Role(p) = "p4" /\ i = 9
  \/ Role(p) = "p5" /\ i = 12
  \/ Role(p) \in {"p6", "p7"} /\ i = 1
  \/ Role(p) = "p8root" /\ i = 10
  \/ Role(p) \in {"child1", "child2", "intermediate"} /\ i = 5
  \/ Role(p) \in LeafRoles /\ i = 4
  \/ Role(p) = "curiousleaf" /\ i = 6

\* Something that no other process and no semaphore is part of.
QuietAt(p, i) ==
  \/ Role(p) = "p1" /\ i \in {2, 6}
  \/ Role(p) = "p2" /\ i \in {4, 5, 6}
  \/ Role(p) = "p3" /\ i \in {1, 2, 3}
  \/ Role(p) = "p4" /\ i = 1
  \/ Role(p) = "p4b" /\ i = 1
  \/ Role(p) = "p5" /\ i \in {1, 2, 3, 4, 5, 6, 8, 11}
  \/ Role(p) = "child1" /\ i = 1
  \/ Role(p) = "intermediate" /\ i \in {3, 4}
  \/ Role(p) = "curiousleaf" /\ i \in {1, 2}

\* A place that must not be reached.
ErrorAt(p, i) ==
  \/ Role(p) = "p1" /\ i = 16 + 2 * Rounds
  \/ Role(p) = "p4b" /\ i = 4
  \/ Role(p) \in {"p6", "p7"} /\ i = 2

\* What an instruction at place i of p's program can be.
Fits(p, i, ins) ==
  /\ ins[1] = "P" => PAt(p, i, ins[2])
  /\ ins[1] = "V" => VAt(p, i, ins[2])
  /\ ins[1] = "Create" =>
       CreateAt(p, i, <<ins[2], IF Len(ins) = 3 THEN ins[3]
                                ELSE IF ins[2] \in P8Roles THEN Turn(p) ELSE 0>>)
  /\ ins[1] = "Terminate" => EndAt(p, i)
  /\ ins[1] = "Trap" => \/ Role(p) # "p5" /\ EndAt(p, i)
                        \/ Role(p) = "p5" /\ \/ i = 4 /\ ins[2] = "PGMTRAP"
                                             \/ i = 5 /\ ins[2] = "TLB"
                                             \/ i = 6 /\ ins[2] = "SYSBK"
  /\ ins[1] = "Error" => ErrorAt(p, i)
  /\ ins[1] = "Kill" => Role(p) = "p4" /\ i = 7 /\ ins = <<"Kill", "p4b">>
  /\ ins[1] = "KillParentFails" => Role(p) = "curiousleaf" /\ i = 1
  /\ ins[1] = "AwaitAdoption" => Role(p) = "curiousleaf" /\ i = 2
  /\ ins[1] = "WaitClock" => Role(p) = "intermediate" /\ i \in {3, 4}
  /\ ins[1] = "Delay" => \/ Role(p) = "p3" /\ i \in {1, 2}
                         \/ Role(p) = "p5" /\ i = 8
  /\ ins[1] = "SetTutor" => Role(p) = "child1" /\ i = 1
  /\ ins[1] = "Synch" => Role(p) = "p2" /\ i = 6
  /\ ins[1] = "SpecPassup" => Role(p) = "p5" /\ \/ i = 1 /\ ins[2] = "PGMTRAP"
                                                \/ i = 2 /\ ins[2] = "TLB"
                                                \/ i = 3 /\ ins[2] = "SYSBK"
  /\ ins[1] = "Check" => \/ Role(p) = "p1" /\ i = 2 /\ ins[2] = "testsem" /\ ins[3] = 1
                         \/ Role(p) = "p2" /\ i = 4 /\ ins[2] = "s" /\ ins[3] = 0
  /\ ins[1] = "CheckSynch" => Role(p) = "p1" /\ i = 6
  /\ ins[1] = "CheckTimes" => \/ Role(p) = "p2" /\ i = 5
                              \/ Role(p) = "p3" /\ i = 3
  /\ ins[1] = "CheckPid" => Role(p) = "p4" /\ i = 1 /\ ins[2] = "p4"
  /\ ins[1] = "CheckParent" => Role(p) = "p4b" /\ i = 1 /\ ins[2] = "p4"
  /\ ins[1] = "SpecPassupFails" => Role(p) = "p5" /\ i = 11 /\ ins[2] = "PGMTRAP"

\* What p1's program is, for every number of rounds.
LEMMA TestIs ==
  /\ Len(Test) = 16 + 2 * Rounds
  /\ \A i \in 1..14 : Test[i] = Before[i]
  /\ \A r \in Round : /\ Test[13 + 2 * r] = <<"Create", "p8root", r>>
                      /\ Test[14 + 2 * r] = <<"P", "endp8">>
  /\ Test[15 + 2 * Rounds] = <<"Trap", "PGMTRAP">>
  /\ Test[16 + 2 * Rounds] = <<"Error">>
  <1>1. Len(Test) = 16 + 2 * Rounds
    BY RoundsAssumption DEF Test
  <1>2. \A i \in 1..14 : Test[i] = Before[i]
    BY RoundsAssumption DEF Test
  <1>3. \A i \in 15..16 + 2 * Rounds : Test[i] = Later(i)
    BY RoundsAssumption DEF Test
  <1>4. \A r \in Round : /\ Later(13 + 2 * r) = <<"Create", "p8root", r>>
                         /\ Later(14 + 2 * r) = <<"P", "endp8">>
    BY RoundsAssumption DEF Later, Round
  <1>5. /\ Later(15 + 2 * Rounds) = <<"Trap", "PGMTRAP">>
        /\ Later(16 + 2 * Rounds) = <<"Error">>
    BY RoundsAssumption DEF Later
  <1>6. \A r \in Round : /\ 13 + 2 * r \in 15..16 + 2 * Rounds
                         /\ 14 + 2 * r \in 15..16 + 2 * Rounds
    BY RoundsAssumption DEF Round
  <1>7. /\ 15 + 2 * Rounds \in 15..16 + 2 * Rounds
        /\ 16 + 2 * Rounds \in 15..16 + 2 * Rounds
    BY RoundsAssumption
  <1> QED
    BY <1>1, <1>2, <1>3, <1>4, <1>5, <1>6, <1>7

\* Where p1 can be.
LEMMA PlacesOfTest ==
  ASSUME NEW i \in 1..16 + 2 * Rounds
  PROVE  \/ i \in 1..14
         \/ i = 15 + 2 * Rounds
         \/ i = 16 + 2 * Rounds
         \/ \E r \in Round : i = 13 + 2 * r
         \/ \E r \in Round : i = 14 + 2 * r
  <1>1. CASE i \in 15..14 + 2 * Rounds
    <2>1. /\ (i - 13) \div 2 \in Round
          /\ i = 13 + 2 * ((i - 13) \div 2) \/ i = 14 + 2 * ((i - 13) \div 2)
      BY <1>1, RoundsAssumption DEF Round
    <2> QED
      BY <2>1
  <1> QED
    BY <1>1, RoundsAssumption

\* The program of each role.
LEMMA CodeIs ==
  ASSUME NEW p
  PROVE  /\ Role(p) = "p1" => Program(p) = Test
         /\ Role(p) = "p2" => Program(p) = P2
         /\ Role(p) = "p3" => Program(p) = P3
         /\ Role(p) = "p4" => Program(p) = P4
         /\ Role(p) = "p4b" => Program(p) = P4b
         /\ Role(p) = "p5" => Program(p) = P5
         /\ Role(p) = "p6" => Program(p) = P6
         /\ Role(p) = "p7" => Program(p) = P7
         /\ Role(p) = "p8root" => Program(p) = P8root
         /\ Role(p) = "child1" => Program(p) = Child1
         /\ Role(p) = "child2" => Program(p) = Child2
         /\ Role(p) = "intermediate" => Program(p) = Intermediate
         /\ Role(p) = "curiousleaf" => Program(p) = Curiousleaf
         /\ Role(p) \in LeafRoles => Program(p) = P8leaf
  BY DEF Code, LeafRoles, Role, Program

\* Every instruction of every program fits.
LEMMA Places ==
  ASSUME NEW p \in Proc, NEW i \in 1..Size(p)
  PROVE  Fits(p, i, Program(p)[i])
  <1> DEFINE ins == Program(p)[i]
  <1>1. CASE Role(p) = "p1"
    <2>1. i \in 1..16 + 2 * Rounds /\ Program(p) = Test
      BY <1>1, CodeIs, TestIs DEF Size
    <2>2. CASE i \in 1..14
      <3>1. ins = Before[i]
        BY <2>1, <2>2, TestIs
      <3>2. \/ i = 1 /\ ins[1] = "V" /\ ins[2] = "testsem"
            \/ i = 2 /\ ins[1] = "Check" /\ ins[2] = "testsem" /\ ins[3] = 1
            \/ i = 3 /\ ins[1] = "Create" /\ ins[2] = "p2" /\ Len(ins) = 2
            \/ i = 4 /\ ins[1] = "V" /\ ins[2] = "startp2"
            \/ i = 5 /\ ins[1] = "P" /\ ins[2] = "endp2"
            \/ i = 6 /\ ins[1] = "CheckSynch"
            \/ i = 7 /\ ins[1] = "Create" /\ ins[2] = "p3" /\ Len(ins) = 2
            \/ i = 8 /\ ins[1] = "P" /\ ins[2] = "endp3"
            \/ i = 9 /\ ins[1] = "Create" /\ ins[2] = "p4" /\ Len(ins) = 2
            \/ i = 10 /\ ins[1] = "Create" /\ ins[2] = "p5" /\ Len(ins) = 2
            \/ i = 11 /\ ins[1] = "Create" /\ ins[2] = "p6" /\ Len(ins) = 2
            \/ i = 12 /\ ins[1] = "Create" /\ ins[2] = "p7" /\ Len(ins) = 2
            \/ i = 13 /\ ins[1] = "P" /\ ins[2] = "endp5"
            \/ i = 14 /\ ins[1] = "P" /\ ins[2] = "blkp4"
        BY <2>2, <3>1 DEF Before
      <3> HIDE DEF ins
      <3>3. Fits(p, i, ins)
        BY <1>1, <3>2 DEF Fits, PAt, VAt, CreateAt, p2, p3, p4, p5, p6, p7, P8Roles
      <3> QED
        BY <3>3 DEF ins
    <2>3. CASE i = 15 + 2 * Rounds
      <3>1. ins = <<"Trap", "PGMTRAP">>
        BY <2>1, <2>3, TestIs
      <3> HIDE DEF ins
      <3>2. Fits(p, i, ins)
        BY <1>1, <2>3, <3>1 DEF Fits, EndAt
      <3> QED
        BY <3>2 DEF ins
    <2>4. CASE i = 16 + 2 * Rounds
      <3>1. ins = <<"Error">>
        BY <2>1, <2>4, TestIs
      <3> HIDE DEF ins
      <3>2. Fits(p, i, ins)
        BY <1>1, <2>4, <3>1 DEF Fits, ErrorAt
      <3> QED
        BY <3>2 DEF ins
    <2>5. CASE \E r \in Round : i = 13 + 2 * r
      <3>1. PICK r \in Round : i = 13 + 2 * r
        BY <2>5
      <3>2. ins = <<"Create", "p8root", r>>
        BY <2>1, <3>1, TestIs
      <3> HIDE DEF ins
      <3>3. Fits(p, i, ins)
        BY <1>1, <3>1, <3>2 DEF Fits, CreateAt, Member
      <3> QED
        BY <3>3 DEF ins
    <2>6. CASE \E r \in Round : i = 14 + 2 * r
      <3>1. ins = <<"P", "endp8">>
        BY <2>1, <2>6, TestIs
      <3> HIDE DEF ins
      <3>2. Fits(p, i, ins)
        BY <1>1, <2>6, <3>1 DEF Fits, PAt
      <3> QED
        BY <3>2 DEF ins
    <2> QED
      BY <2>1, <2>2, <2>3, <2>4, <2>5, <2>6, PlacesOfTest
  <1>2. CASE Role(p) = "p2"
    <2>1. Program(p) = P2
      BY <1>2, CodeIs
    <2>2. \/ i = 1 /\ ins[1] = "P" /\ ins[2] = "startp2"
          \/ i = 2 /\ ins[1] = "V" /\ ins[2] = "s"
          \/ i = 3 /\ ins[1] = "P" /\ ins[2] = "s"
          \/ i = 4 /\ ins[1] = "Check" /\ ins[2] = "s" /\ ins[3] = 0
          \/ i = 5 /\ ins[1] = "CheckTimes"
          \/ i = 6 /\ ins[1] = "Synch"
          \/ i = 7 /\ ins[1] = "V" /\ ins[2] = "endp2"
          \/ i = 8 /\ ins[1] = "Terminate"
      BY <2>1 DEF P2, Size
    <2> HIDE DEF ins
    <2>3. Fits(p, i, ins)
      BY <1>2, <2>2 DEF Fits, PAt, VAt, EndAt
    <2> QED
      BY <2>3 DEF ins
  <1>3. CASE Role(p) = "p3"
    <2>1. Program(p) = P3
      BY <1>3, CodeIs
    <2>2. \/ i = 1 /\ ins[1] = "Delay"
          \/ i = 2 /\ ins[1] = "Delay"
          \/ i = 3 /\ ins[1] = "CheckTimes"
          \/ i = 4 /\ ins[1] = "V" /\ ins[2] = "endp3"
          \/ i = 5 /\ ins[1] = "Terminate"
      BY <2>1 DEF P3, Size
    <2> HIDE DEF ins
    <2>3. Fits(p, i, ins)
      BY <1>3, <2>2 DEF Fits, VAt, EndAt
    <2> QED
      BY <2>3 DEF ins
  <1>4. CASE Role(p) = "p4"
    <2>1. Program(p) = P4
      BY <1>4, CodeIs
    <2>2. \/ i = 1 /\ ins[1] = "CheckPid" /\ ins[2] = "p4"
          \/ i = 2 /\ ins[1] = "V" /\ ins[2] = "synp4"
          \/ i = 3 /\ ins[1] = "P" /\ ins[2] = "blkp4"
          \/ i = 4 /\ ins[1] = "P" /\ ins[2] = "synp4"
          \/ i = 5 /\ ins[1] = "Create" /\ ins[2] = "p4b" /\ Len(ins) = 2
          \/ i = 6 /\ ins[1] = "P" /\ ins[2] = "synp4"
          \/ i = 7 /\ ins = <<"Kill", "p4b">>
          \/ i = 8 /\ ins[1] = "V" /\ ins[2] = "endp4"
          \/ i = 9 /\ ins[1] = "Terminate"
      BY <2>1 DEF P4, Size
    <2> HIDE DEF ins
    <2>3. Fits(p, i, ins)
      BY <1>4, <2>2 DEF Fits, PAt, VAt, CreateAt, EndAt, p4b, P8Roles
    <2> QED
      BY <2>3 DEF ins
  <1>5. CASE Role(p) = "p4b"
    <2>1. Program(p) = P4b
      BY <1>5, CodeIs
    <2>2. \/ i = 1 /\ ins[1] = "CheckParent" /\ ins[2] = "p4"
          \/ i = 2 /\ ins[1] = "V" /\ ins[2] = "synp4"
          \/ i = 3 /\ ins[1] = "P" /\ ins[2] = "blkp4"
          \/ i = 4 /\ ins[1] = "Error"
      BY <2>1 DEF P4b, Size
    <2> HIDE DEF ins
    <2>3. Fits(p, i, ins)
      BY <1>5, <2>2 DEF Fits, PAt, VAt, ErrorAt
    <2> QED
      BY <2>3 DEF ins
  <1>6. CASE Role(p) = "p5"
    <2>1. Program(p) = P5
      BY <1>6, CodeIs
    <2>2. \/ i = 1 /\ ins[1] = "SpecPassup" /\ ins[2] = "PGMTRAP"
          \/ i = 2 /\ ins[1] = "SpecPassup" /\ ins[2] = "TLB"
          \/ i = 3 /\ ins[1] = "SpecPassup" /\ ins[2] = "SYSBK"
          \/ i = 4 /\ ins[1] = "Trap" /\ ins[2] = "PGMTRAP"
          \/ i = 5 /\ ins[1] = "Trap" /\ ins[2] = "TLB"
          \/ i = 6 /\ ins[1] = "Trap" /\ ins[2] = "SYSBK"
          \/ i = 7 /\ ins[1] = "P" /\ ins[2] = "endp4"
          \/ i = 8 /\ ins[1] = "Delay"
          \/ i = 9 /\ ins[1] = "V" /\ ins[2] = "blkp4"
          \/ i = 10 /\ ins[1] = "V" /\ ins[2] = "endp5"
          \/ i = 11 /\ ins[1] = "SpecPassupFails" /\ ins[2] = "PGMTRAP"
          \/ i = 12 /\ ins[1] = "Terminate"
      BY <2>1 DEF P5, Size
    <2> HIDE DEF ins
    <2>3. Fits(p, i, ins)
      BY <1>6, <2>2 DEF Fits, PAt, VAt, EndAt
    <2> QED
      BY <2>3 DEF ins
  <1>7. CASE Role(p) = "p8root"
    <2>1. Program(p) = P8root
      BY <1>7, CodeIs
    <2>2. \/ i = 1 /\ ins[1] = "P" /\ ins[2] = "blkp8"
          \/ i = 2 /\ ins[1] = "Create" /\ ins[2] = "child1" /\ Len(ins) = 2
          \/ i = 3 /\ ins[1] = "Create" /\ ins[2] = "child2" /\ Len(ins) = 2
          \/ i = 4 /\ ins[1] = "P" /\ ins[2] = "endcreate"
          \/ i = 5 /\ ins[1] = "P" /\ ins[2] = "endcreate"
          \/ i = 6 /\ ins[1] = "P" /\ ins[2] = "endcreate"
          \/ i = 7 /\ ins[1] = "P" /\ ins[2] = "endcreate"
          \/ i = 8 /\ ins[1] = "V" /\ ins[2] = "blkp8"
          \/ i = 9 /\ ins[1] = "V" /\ ins[2] = "endp8"
          \/ i = 10 /\ ins[1] = "Terminate"
      BY <2>1 DEF P8root, Size
    <2> HIDE DEF ins
    <2>3. Fits(p, i, ins)
      BY <1>7, <2>2 DEF Fits, PAt, VAt, CreateAt, EndAt, Member, P8Roles
    <2> QED
      BY <2>3 DEF ins
  <1>8. CASE Role(p) = "child1"
    <2>1. Program(p) = Child1
      BY <1>8, CodeIs
    <2>2. \/ i = 1 /\ ins[1] = "SetTutor"
          \/ i = 2 /\ ins[1] = "Create" /\ ins[2] = "intermediate" /\ Len(ins) = 2
          \/ i = 3 /\ ins[1] = "P" /\ ins[2] = "blkp8"
          \/ i = 4 /\ ins[1] = "V" /\ ins[2] = "blkp8"
          \/ i = 5 /\ ins[1] = "Terminate"
      BY <2>1 DEF Child1, PassOn, Size
    <2> HIDE DEF ins
    <2>3. Fits(p, i, ins)
      BY <1>8, <2>2 DEF Fits, PAt, VAt, CreateAt, EndAt, Member, P8Roles
    <2> QED
      BY <2>3 DEF ins
  <1>9. CASE Role(p) = "intermediate"
    <2>1. Program(p) = Intermediate
      BY <1>9, CodeIs
    <2>2. \/ i = 1 /\ ins[1] = "Create" /\ ins[2] = "curiousleaf" /\ Len(ins) = 2
          \/ i = 2 /\ ins[1] = "Create" /\ ins[2] = "leaf1" /\ Len(ins) = 2
          \/ i = 3 /\ ins[1] = "WaitClock"
          \/ i = 4 /\ ins[1] = "WaitClock"
          \/ i = 5 /\ ins[1] = "Terminate"
      BY <2>1 DEF Intermediate, Size
    <2> HIDE DEF ins
    <2>3. Fits(p, i, ins)
      BY <1>9, <2>2 DEF Fits, CreateAt, EndAt, Member, P8Roles
    <2> QED
      BY <2>3 DEF ins
  <1>10. CASE Role(p) = "child2"
    <2>1. Program(p) = Child2
      BY <1>10, CodeIs
    <2>2. \/ i = 1 /\ ins[1] = "Create" /\ ins[2] = "leaf2" /\ Len(ins) = 2
          \/ i = 2 /\ ins[1] = "Create" /\ ins[2] = "leaf3" /\ Len(ins) = 2
          \/ i = 3 /\ ins[1] = "P" /\ ins[2] = "blkp8"
          \/ i = 4 /\ ins[1] = "V" /\ ins[2] = "blkp8"
          \/ i = 5 /\ ins[1] = "Terminate"
      BY <2>1 DEF Child2, PassOn, Size
    <2> HIDE DEF ins
    <2>3. Fits(p, i, ins)
      BY <1>10, <2>2 DEF Fits, PAt, VAt, CreateAt, EndAt, Member, P8Roles
    <2> QED
      BY <2>3 DEF ins
  <1>11. CASE Role(p) = "curiousleaf"
    <2>1. Program(p) = Curiousleaf
      BY <1>11, CodeIs
    <2>2. \/ i = 1 /\ ins[1] = "KillParentFails"
          \/ i = 2 /\ ins[1] = "AwaitAdoption"
          \/ i = 3 /\ ins[1] = "V" /\ ins[2] = "endcreate"
          \/ i = 4 /\ ins[1] = "P" /\ ins[2] = "blkp8"
          \/ i = 5 /\ ins[1] = "V" /\ ins[2] = "blkp8"
          \/ i = 6 /\ ins[1] = "Terminate"
      BY <2>1 DEF Curiousleaf, PassOn, Size
    <2> HIDE DEF ins
    <2>3. Fits(p, i, ins)
      BY <1>11, <2>2 DEF Fits, PAt, VAt, EndAt
    <2> QED
      BY <2>3 DEF ins
  <1>12. CASE Role(p) \in LeafRoles
    <2>1. Program(p) = P8leaf
      BY <1>12, CodeIs
    <2>2. \/ i = 1 /\ ins[1] = "V" /\ ins[2] = "endcreate"
          \/ i = 2 /\ ins[1] = "P" /\ ins[2] = "blkp8"
          \/ i = 3 /\ ins[1] = "V" /\ ins[2] = "blkp8"
          \/ i = 4 /\ ins[1] = "Terminate"
      BY <2>1 DEF P8leaf, PassOn, Size
    <2> HIDE DEF ins
    <2>3. Fits(p, i, ins)
      BY <1>12, <2>2 DEF Fits, PAt, VAt, EndAt, LeafRoles
    <2> QED
      BY <2>3 DEF ins
  <1>13. CASE Role(p) \in {"p6", "p7"}
    <2>1. (Role(p) = "p6" /\ Program(p) = P6) \/ (Role(p) = "p7" /\ Program(p) = P7)
      BY <1>13, CodeIs
    <2>2. \/ i = 1 /\ ins[1] = "Trap"
          \/ i = 2 /\ ins[1] = "Error"
      <3>1. CASE Program(p) = P6
        BY <3>1 DEF P6, Size
      <3>2. CASE Program(p) = P7
        BY <3>2 DEF P7, Size
      <3> QED
        BY <2>1, <3>1, <3>2
    <2> HIDE DEF ins
    <2>3. Fits(p, i, ins)
      BY <1>13, <2>2 DEF Fits, EndAt, ErrorAt
    <2> QED
      BY <2>3 DEF ins
  <1> QED
    BY Roles, <1>1, <1>2, <1>3, <1>4, <1>5, <1>6, <1>7, <1>8, <1>9, <1>10, <1>11, <1>12, <1>13
    DEF OnceRoles, P8Roles, LeafRoles

\* A program is shorter than Ended.
LEMMA Lengths ==
  /\ Ended = 17 + 2 * Rounds /\ Ended > 18
  /\ \A p \in Proc : /\ Role(p) \in {"p6", "p7"} => Size(p) = 2
                     /\ Role(p) \in {"p4b"} \cup LeafRoles => Size(p) = 4
                     /\ Role(p) \in {"p3", "child1", "child2", "intermediate"} => Size(p) = 5
                     /\ Role(p) = "curiousleaf" => Size(p) = 6
                     /\ Role(p) = "p2" => Size(p) = 8
                     /\ Role(p) = "p4" => Size(p) = 9
                     /\ Role(p) = "p8root" => Size(p) = 10
                     /\ Role(p) = "p5" => Size(p) = 12
                     /\ Role(p) = "p1" => Size(p) = 16 + 2 * Rounds
                     /\ Size(p) \in 1..Ended - 1
  <1>1. Ended = 17 + 2 * Rounds /\ Ended > 18
    BY TestIs, RoundsAssumption DEF Ended
  <1>2. /\ Len(P6) = 2 /\ Len(P7) = 2 /\ Len(P3) = 5 /\ Len(P4b) = 4 /\ Len(P8leaf) = 4
        /\ Len(Child1) = 5 /\ Len(Child2) = 5 /\ Len(Intermediate) = 5
        /\ Len(Curiousleaf) = 6 /\ Len(P2) = 8 /\ Len(P4) = 9 /\ Len(P8root) = 10
        /\ Len(P5) = 12
    BY DEF P2, P3, P4, P4b, P5, P6, P7, P8root, Child1, Intermediate, Child2, Curiousleaf,
           P8leaf, PassOn
  <1>3. ASSUME NEW p \in Proc
        PROVE  /\ Role(p) \in {"p6", "p7"} => Size(p) = 2
               /\ Role(p) \in {"p4b"} \cup LeafRoles => Size(p) = 4
               /\ Role(p) \in {"p3", "child1", "child2", "intermediate"} => Size(p) = 5
               /\ Role(p) = "curiousleaf" => Size(p) = 6
               /\ Role(p) = "p2" => Size(p) = 8
               /\ Role(p) = "p4" => Size(p) = 9
               /\ Role(p) = "p8root" => Size(p) = 10
               /\ Role(p) = "p5" => Size(p) = 12
               /\ Role(p) = "p1" => Size(p) = 16 + 2 * Rounds
    BY <1>2, CodeIs, TestIs DEF Size
  <1>4. \A p \in Proc : Size(p) \in 1..Ended - 1
    BY <1>1, <1>3, Roles, RoundsAssumption DEF LeafRoles, OnceRoles, P8Roles
  <1> QED
    BY <1>1, <1>3, <1>4

\* An instruction that does not end its process has another one behind it.
LEMMA GoesOn ==
  ASSUME NEW p \in Proc, NEW i, NEW s,
         \/ PAt(p, i, s) \/ VAt(p, i, s) \/ CreateAt(p, i, s) \/ QuietAt(p, i)
         \/ Role(p) = "p4" /\ i = 7
  PROVE  i \in Nat /\ i > 0 /\ i + 1 <= Size(p)
  <1>1. CASE PAt(p, i, s)
    BY <1>1, Lengths, RoundsAssumption DEF PAt, LeafRoles, Round
  <1>2. CASE VAt(p, i, s)
    BY <1>2, Lengths, RoundsAssumption DEF VAt, LeafRoles
  <1>3. CASE CreateAt(p, i, s)
    BY <1>3, Lengths, RoundsAssumption DEF CreateAt, LeafRoles, Round
  <1>4. CASE QuietAt(p, i)
    BY <1>4, Lengths, RoundsAssumption DEF QuietAt, LeafRoles
  <1>5. CASE Role(p) = "p4" /\ i = 7
    BY <1>5, Lengths
  <1> QED
    BY <1>1, <1>2, <1>3, <1>4, <1>5
----------------------------------------------------------------------------
(* The inductive invariant. *)

TypeOK ==
  /\ pc \in [Proc -> 0..Ended]
  /\ wait \in [Proc -> Semaphore \cup {"clock", "nothing"}]
  /\ sem \in [Semaphore -> Int]
  /\ parent \in [Proc -> Proc \cup {NULL}]
  /\ pids \in [{"p4", "child1", "intermediate"} -> Proc \cup {NULL}]
  /\ tutor \subseteq Proc
  /\ handlers \subseteq {"PGMTRAP", "TLB", "SYSBK"}
  /\ p1p2synch \in BOOLEAN

\* Who lives is in its program, and not behind a trap that must end it.
InCode ==
  /\ \A p \in Proc : Alive(p) => pc[p] <= Size(p)
  /\ pc[p1] # 16 + 2 * Rounds /\ pc[p6] # 2 /\ pc[p7] # 2

\* Who waits lives, and waits for a semaphore since its P of it.
WaitsFor ==
  \A p \in Proc : /\ wait[p] # "nothing" => Alive(p)
                  /\ wait[p] \in Semaphore => pc[p] > 1 /\ PAt(p, pc[p] - 1, wait[p])

\* A semaphore below zero counts who waits for it.
Counted ==
  \A s \in Semaphore : Cardinality(Waiting(s)) = IF sem[s] < 0 THEN -sem[s] ELSE 0

\* Who has been created is known from where its creator is.
Created ==
  /\ pc[p1] > 0
  /\ pc[p2] > 0 <=> pc[p1] > 3
  /\ pc[p3] > 0 <=> pc[p1] > 7
  /\ pc[p4] > 0 <=> pc[p1] > 9
  /\ pc[p5] > 0 <=> pc[p1] > 10
  /\ pc[p6] > 0 <=> pc[p1] > 11
  /\ pc[p7] > 0 <=> pc[p1] > 12
  /\ pc[p4b] > 0 <=> pc[p4] > 5

Begun(r) == pc[p1] > 13 + 2 * r
Over(r) == pc[p1] > 15 + 2 * r
Now(r) == Begun(r) /\ ~Over(r)

Root(r) == Member("p8root", r)
At(role, r) == pc[Member(role, r)]

CreatedIn(r) ==
  /\ At("p8root", r) > 0 <=> Begun(r)
  /\ At("child1", r) > 0 <=> At("p8root", r) > 2
  /\ At("child2", r) > 0 <=> At("p8root", r) > 3
  /\ At("intermediate", r) > 0 <=> At("child1", r) > 2
  /\ At("curiousleaf", r) > 0 <=> At("intermediate", r) > 1
  /\ At("leaf1", r) > 0 <=> At("intermediate", r) > 2
  /\ At("leaf2", r) > 0 <=> At("child2", r) > 1
  /\ At("leaf3", r) > 0 <=> At("child2", r) > 2
CreatedIn8 == \A r \in Round : CreatedIn(r)

\* The value of a semaphore is known from who has done its V and its P.
N(done) == IF done THEN 1 ELSE 0
Values ==
  /\ sem["testsem"] = N(pc[p1] > 1)
  /\ sem["startp2"] = N(pc[p1] > 4) - N(pc[p2] > 1)
  /\ sem["s"] = N(pc[p2] > 2) - N(pc[p2] > 3)
  /\ sem["endp2"] = N(pc[p2] > 7) - N(pc[p1] > 5)
  /\ sem["endp3"] = N(pc[p3] > 4) - N(pc[p1] > 8)
  /\ sem["synp4"] = N(pc[p4] > 2) + N(pc[p4b] > 2) - N(pc[p4] > 4) - N(pc[p4] > 6)
  /\ sem["blkp4"] = 1 + N(pc[p5] > 9) - N(pc[p4] > 3) - N(pc[p4b] = 4) - N(pc[p1] > 14)
  /\ sem["endp4"] = N(pc[p4] > 8) - N(pc[p5] > 7)
  /\ sem["endp5"] = N(pc[p5] > 10) - N(pc[p1] > 13)

\* How many leaves of a round have reported, and how many p8root has waited for.
Reported(r) ==
  N(At("leaf1", r) > 1) + N(At("leaf2", r) > 1) + N(At("leaf3", r) > 1)
  + N(At("curiousleaf", r) > 3)
Taken(r) ==
  N(At("p8root", r) > 4) + N(At("p8root", r) > 5) + N(At("p8root", r) > 6)
  + N(At("p8root", r) > 7)

\* The rounds follow one another: p1 leaves one when its p8root has done its V of
\* endp8, p8root does it when the four leaves have reported, and who waits for the
\* mutex at its end is not let in before.
InOrder ==
  /\ \A r \in Round : Over(r) => At("p8root", r) > 9
  /\ \A r \in Round : At("p8root", r) > 8 => Reported(r) = 4
  /\ \A r \in Round : \/ At("child1", r) > 4 \/ At("child2", r) > 4
                       \/ At("leaf2", r) > 3 \/ At("leaf3", r) > 3 => At("p8root", r) > 8
RoundValues ==
  /\ \A r \in Round : Now(r) =>
       /\ sem["endp8"] = N(At("p8root", r) > 9) - N(pc[p1] > 14 + 2 * r)
       /\ sem["endcreate"] = Reported(r) - Taken(r)
  /\ (\A r \in Round : ~Now(r)) => sem["endp8"] = 0 /\ sem["endcreate"] = 0

\* Who is between its P and its V of blkp8, which is a mutex.
Inside(p) ==
  /\ \/ Role(p) = "p8root" /\ pc[p] \in 2..8
     \/ Role(p) \in {"child1", "child2"} /\ pc[p] = 4
     \/ Role(p) \in LeafRoles /\ pc[p] = 3
     \/ Role(p) = "curiousleaf" /\ pc[p] = 5
  /\ wait[p] # "blkp8"
Mutex ==
  /\ \A p, q \in Proc : Inside(p) /\ Inside(q) => p = q
  /\ sem["blkp8"] <= 1
  /\ sem["blkp8"] = 1 <=> \A p \in Proc : ~Inside(p)

\* p4b waits until p4, its parent, kills it.
P4Facts ==
  /\ pc[p4b] = Ended <=> pc[p4] > 7
  /\ pc[p4b] > 0 /\ pc[p4] < 8 => parent[p4b] = p4
  /\ pc[p4] \in 1..9 => pids["p4"] = p4
  /\ pc[p4b] = 4 => wait[p4b] = "blkp4"

Done ==
  /\ pc[p2] > 6 => p1p2synch
  /\ pc[p5] > 1 => "PGMTRAP" \in handlers
  /\ pc[p5] > 2 => "TLB" \in handlers
  /\ pc[p5] > 3 => "SYSBK" \in handlers

\* Who is not alive has no parent, and neither has the first process.
Rootless == \A p \in Proc : p = p1 \/ ~Alive(p) => parent[p] = NULL

\* The family of p8root while p8root is in its mutex: a PCB that is in use names
\* the process it was given to, and intermediate's may have been given to
\* child2 or one of its leaves when intermediate has ended.  Whether child1 then
\* adopts curiousleaf is open.
FamilyOf(r) ==
  LET child1 == Member("child1", r)
      child2 == Member("child2", r)
      intermediate == Member("intermediate", r)
      curious == Member("curiousleaf", r)
  IN  At("p8root", r) \in 1..8 =>
        /\ parent[Root(r)] = p1
        /\ pc[child1] > 0 => pids["child1"] = child1 /\ parent[child1] = Root(r)
        /\ pc[child1] > 1 => child1 \in tutor
        /\ pc[child2] > 0 => parent[child2] = Root(r)
        /\ \A leaf \in {Member("leaf2", r), Member("leaf3", r)} :
             pc[leaf] > 0 => parent[leaf] = child2
        /\ Alive(intermediate) =>
             parent[intermediate] = child1 /\ pids["intermediate"] = intermediate
        /\ pc[intermediate] > 0 =>
             pids["intermediate"]
               \in {intermediate, child2, Member("leaf2", r), Member("leaf3", r)}
        /\ pc[curious] \in 1..3 =>
             parent[curious] \in IF Alive(intermediate) THEN {intermediate}
                                 ELSE {child1, pids["intermediate"]}
Families == \A r \in Round : FamilyOf(r)

IInv ==
  /\ TypeOK /\ InCode /\ WaitsFor /\ Counted /\ Created /\ CreatedIn8 /\ Values
  /\ InOrder /\ RoundValues /\ Mutex /\ P4Facts /\ Done /\ Rootless /\ Families
  /\ ~failed

----------------------------------------------------------------------------
(* The steps, by what they do to processes and semaphores. *)

Moves(p) == pc' = [pc EXCEPT ![p] = pc[p] + 1]

PStep(p, s) ==
  /\ Ready(p) /\ PAt(p, pc[p], s) /\ s \in Semaphore /\ Moves(p)
  /\ sem' = [sem EXCEPT ![s] = sem[s] - 1]
  /\ wait' = IF sem[s] < 1 THEN [wait EXCEPT ![p] = s] ELSE wait
  /\ UNCHANGED <<parent, tutor, pids, handlers, p1p2synch, failed>>

VStep(p, s) ==
  /\ Ready(p) /\ VAt(p, pc[p], s) /\ s \in Semaphore /\ Moves(p)
  /\ sem' = [sem EXCEPT ![s] = sem[s] + 1]
  /\ Wake(s)
  /\ UNCHANGED <<parent, tutor, pids, handlers, p1p2synch, failed>>

\* c gets a new PCB or that of somebody who has ended, and then the pointers to it.
CreateStep(p, c) ==
  /\ Ready(p) /\ CreateAt(p, pc[p], c) /\ c \in Proc
  /\ pc' = [pc EXCEPT ![p] = pc[p] + 1, ![c] = 1]
  /\ \E old \in Proc :
       /\ old = c \/ pc[old] = Ended
       /\ parent' = [q \in Proc |-> IF q = c THEN p
                                    ELSE IF parent[q] = old THEN c ELSE parent[q]]
       /\ pids' = [role \in DOMAIN pids |-> IF role = Role(c) THEN c
                                            ELSE IF pids[role] = old THEN c ELSE pids[role]]
       /\ tutor' = tutor \ {old}
  /\ UNCHANGED <<wait, sem, handlers, p1p2synch, failed>>

QuietStep(p) ==
  /\ Ready(p) /\ QuietAt(p, pc[p])
  /\ Moves(p) \/ UNCHANGED pc
  /\ wait' = wait \/ wait' = [wait EXCEPT ![p] = "clock"]
  /\ tutor \subseteq tutor' /\ tutor' \subseteq Proc
  /\ Role(p) = "child1" => p \in tutor'
  /\ handlers \subseteq handlers' /\ handlers' \subseteq {"PGMTRAP", "TLB", "SYSBK"}
  /\ Role(p) = "p5" /\ pc[p] = 1 => "PGMTRAP" \in handlers'
  /\ Role(p) = "p5" /\ pc[p] = 2 => "TLB" \in handlers'
  /\ Role(p) = "p5" /\ pc[p] = 3 => "SYSBK" \in handlers'
  /\ p1p2synch' \in BOOLEAN
  /\ p1p2synch => p1p2synch'
  /\ Role(p) = "p2" /\ pc[p] = 6 => p1p2synch'
  /\ ~failed'
  /\ UNCHANGED <<sem, parent, pids>>

\* q's children after its end: one is adopted at most, by q's parent if that is a
\* tutor.
Adopt(q) ==
  \E heir \in Children(q) \cup {NULL}, adopter \in Proc :
    /\ parent[q] \in tutor => adopter = parent[q]
    /\ parent' = [c \in Proc |-> IF c = q THEN NULL
                                 ELSE IF c = heir THEN adopter ELSE parent[c]]

EndStep(p) ==
  /\ Ready(p) /\ EndAt(p, pc[p])
  /\ pc' = [pc EXCEPT ![p] = Ended]
  /\ Adopt(p)
  /\ UNCHANGED <<wait, sem, tutor, pids, handlers, p1p2synch, failed>>

KillStep ==
  /\ Ready(p4) /\ pc[p4] = 7 /\ pc[p4b] \in {3, 4}
  /\ pc' = [pc EXCEPT ![p4] = 8, ![p4b] = Ended]
  /\ Adopt(p4b)
  /\ wait' = [wait EXCEPT ![p4b] = "nothing"]
  /\ GiveBack(p4b)
  /\ ~failed'
  /\ UNCHANGED <<tutor, pids, handlers, p1p2synch>>

\* A ready process is at an instruction of its program.
LEMMA AtPlace ==
  ASSUME TypeOK, InCode, NEW p \in Proc, Ready(p)
  PROVE  /\ pc[p] \in 1..Size(p) /\ Fits(p, pc[p], Instruction(p))
         /\ wait[p] = "nothing"
  <1>1. /\ pc[p] \in 0..Ended /\ pc[p] \in 1..Ended - 1
        /\ pc[p] <= Size(p) /\ Size(p) \in 1..Ended - 1
    BY Lengths DEF TypeOK, InCode, Ready, Alive
  <1>2. pc[p] \in 1..Size(p)
    BY <1>1, Lengths
  <1>3. Instruction(p) = Program(p)[pc[p]]
    BY DEF Instruction, Program
  <1> QED
    BY <1>2, <1>3, Places DEF Ready

\* Every semaphore a program names is one.
LEMMA SemaphoresOf ==
  ASSUME NEW p, NEW i, NEW s, PAt(p, i, s) \/ VAt(p, i, s)
  PROVE  s \in Semaphore
  BY DEF PAt, VAt, Semaphore

\* SYS2 creates a process.
LEMMA CreatedOnes ==
  ASSUME NEW p \in Proc, NEW i, NEW c, CreateAt(p, i, c)
  PROVE  c \in Proc
  BY Names, Roles DEF CreateAt, P8Roles

----------------------------------------------------------------------------
(* What the invariant says of waiting. *)

\* There are finitely many processes.
LEMMA FiniteProc == IsFiniteSet(Proc)
  <1>1. IsFiniteSet(OnceRoles)
    <2>1. ASSUME NEW a, NEW b PROVE IsFiniteSet({a, b})
      <3>1. IsFiniteSet({a} \cup {b})
        BY FS_Singleton, FS_Union
      <3>2. {a, b} = {a} \cup {b}
        OBVIOUS
      <3> QED
        BY <3>1, <3>2
    <2>2. \A S, T : IsFiniteSet(S) /\ IsFiniteSet(T) => IsFiniteSet(S \cup T)
      BY FS_Union
    <2>3. OnceRoles = ({"p1", "p2"} \cup {"p3", "p4"}) \cup ({"p4b", "p5"} \cup {"p6", "p7"})
      BY DEF OnceRoles
    <2> QED
      BY <2>1, <2>2, <2>3
  <1>2. IsFiniteSet(P8Roles)
    <2>1. ASSUME NEW a, NEW b PROVE IsFiniteSet({a, b})
      <3>1. IsFiniteSet({a} \cup {b})
        BY FS_Singleton, FS_Union
      <3>2. {a, b} = {a} \cup {b}
        OBVIOUS
      <3> QED
        BY <3>1, <3>2
    <2>2. \A S, T : IsFiniteSet(S) /\ IsFiniteSet(T) => IsFiniteSet(S \cup T)
      BY FS_Union
    <2>3. P8Roles = ({"p8root", "child1"} \cup {"intermediate", "child2"})
                    \cup ({"curiousleaf", "leaf1"} \cup {"leaf2", "leaf3"})
      BY DEF P8Roles
    <2> QED
      BY <2>1, <2>2, <2>3
  <1>3. IsFiniteSet(OnceRoles \cup P8Roles)
    BY <1>1, <1>2, FS_Union
  <1>4. IsFiniteSet(0..Rounds)
    BY FS_Interval, RoundsAssumption
  <1>5. IsFiniteSet((OnceRoles \cup P8Roles) \X (0..Rounds))
    BY <1>3, <1>4, FS_Product
  <1>6. Proc \in SUBSET ((OnceRoles \cup P8Roles) \X (0..Rounds))
    BY RoundsAssumption DEF Proc, OnceRoles
  <1> QED
    BY <1>5, <1>6, FS_Subset

\* Somebody waits for a semaphore below zero, and for such a one only.
LEMMA Waiters ==
  ASSUME TypeOK, WaitsFor, Counted, NEW s \in Semaphore
  PROVE  /\ IsFiniteSet(Waiting(s))
         /\ sem[s] < 0 => \E q \in Proc : wait[q] = s /\ pc[q] > 1 /\ PAt(q, pc[q] - 1, s)
         /\ \A q \in Proc : wait[q] = s => sem[s] < 0
  <1>1. IsFiniteSet(Waiting(s))
    BY FiniteProc, FS_Subset DEF Waiting
  <1>2. Cardinality(Waiting(s)) = (IF sem[s] < 0 THEN -sem[s] ELSE 0) /\ sem[s] \in Int
    BY DEF Counted, TypeOK
  <1>3. Waiting(s) # {} <=> sem[s] < 0
    BY <1>1, <1>2, FS_EmptySet
  <1> QED
    BY <1>1, <1>3 DEF Waiting, WaitsFor

\* Who does a P of which semaphore.
LEMMA WhoPs ==
  ASSUME NEW q \in Proc, NEW i, NEW s, PAt(q, i, s)
  PROVE  /\ s \in Semaphore
         /\ s # "testsem"
         /\ s = "startp2" => q = p2 /\ i = 1
         /\ s = "s" => q = p2 /\ i = 3
         /\ s = "endp2" => q = p1 /\ i = 5
         /\ s = "endp3" => q = p1 /\ i = 8
         /\ s = "endp5" => q = p1 /\ i = 13
         /\ s = "blkp4" => \/ q = p1 /\ i = 14
                           \/ q = p4 /\ i = 3
                           \/ q = p4b /\ i = 3
         /\ s = "synp4" => q = p4 /\ i \in {4, 6}
         /\ s = "endp4" => q = p5 /\ i = 7
         /\ s = "endp8" => q = p1 /\ \E r \in Round : i = 14 + 2 * r
         /\ s = "endcreate" => Role(q) = "p8root" /\ i \in 4..7
         /\ s = "blkp8" => \/ Role(q) = "p8root" /\ i = 1
                           \/ Role(q) \in {"child1", "child2"} /\ i = 3
                           \/ Role(q) \in LeafRoles /\ i = 2
                           \/ Role(q) = "curiousleaf" /\ i = 4
  BY Roles DEF PAt, Semaphore

----------------------------------------------------------------------------
(* Every step has one of the forms. *)

\* The P of the model is a PStep: it is at a P of its program.
LEMMA PSteps ==
  ASSUME IInv, NEW p \in Proc, P(p)
  PROVE  \E s \in Semaphore : PStep(p, s)
  <1> DEFINE s == Argument(p)
  <1>1. Ready(p) /\ Instruction(p)[1] = "P"
    BY DEF P, Does
  <1>2. PAt(p, pc[p], s)
    BY <1>1, AtPlace DEF IInv, Fits, Argument
  <1>3. s \in Semaphore
    BY <1>2, SemaphoresOf
  <1>4. /\ Moves(p)
        /\ sem' = [sem EXCEPT ![s] = sem[s] - 1]
        /\ wait' = IF sem[s] < 1 THEN [wait EXCEPT ![p] = s] ELSE wait
        /\ UNCHANGED <<parent, tutor, pids, handlers, p1p2synch, failed>>
    BY DEF P, GoOn, Moves, family
  <1> QED
    BY <1>1, <1>2, <1>3, <1>4 DEF PStep

\* And its V is a VStep.
LEMMA VSteps ==
  ASSUME IInv, NEW p \in Proc, V(p)
  PROVE  \E s \in Semaphore : VStep(p, s)
  <1> DEFINE s == Argument(p)
  <1>1. Ready(p) /\ Instruction(p)[1] = "V"
    BY DEF V, Does
  <1>2. VAt(p, pc[p], s)
    BY <1>1, AtPlace DEF IInv, Fits, Argument
  <1>3. s \in Semaphore
    BY <1>2, SemaphoresOf
  <1>4. /\ Moves(p)
        /\ sem' = [sem EXCEPT ![s] = sem[s] + 1]
        /\ Wake(s)
        /\ UNCHANGED <<parent, tutor, pids, handlers, p1p2synch, failed>>
    BY DEF V, GoOn, Moves, family
  <1> QED
    BY <1>1, <1>2, <1>3, <1>4 DEF VStep

\* And its SYS2 is a CreateStep, if there is a free PCB.
LEMMA CreateSteps ==
  ASSUME IInv, NEW p \in Proc, Create(p)
  PROVE  refused' \/ \E c \in Proc : CreateStep(p, c)
  <1> DEFINE c == Named(p)
  <1>1. Ready(p) /\ Instruction(p)[1] = "Create"
    BY DEF Create, Does
  <1>2. CreateAt(p, pc[p], c)
    BY <1>1, AtPlace DEF IInv, Fits, Named, Argument, Turn
  <1>3. c \in Proc
    BY <1>2, CreatedOnes
  <1> HIDE DEF c
  <1>4. ASSUME Born(p, c) PROVE CreateStep(p, c)
    <2>1. PICK old \in Stale \cup {c} :
            /\ pc' = [pc EXCEPT ![p] = pc[p] + 1, ![c] = 1]
            /\ parent' = [q \in Proc |-> IF q = c THEN p
                                         ELSE IF parent[q] = old THEN c ELSE parent[q]]
            /\ tutor' = tutor \ {old}
            /\ pids' = [role \in DOMAIN pids |-> IF role = c[1] THEN c
                                               ELSE IF pids[role] = old THEN c ELSE pids[role]]
            /\ UNCHANGED failed
      BY <1>4 DEF Born
    <2>2. old \in Proc /\ (old = c \/ pc[old] = Ended)
      BY <1>3 DEF Stale
    <2>3. UNCHANGED <<wait, sem, handlers, p1p2synch>>
      BY DEF Create
    <2> QED
      BY <1>1, <1>2, <1>3, <2>1, <2>2, <2>3 DEF CreateStep, Role
  <1>5. Born(p, c) \/ Refuse(p, c)
    BY DEF Create, c
  <1> QED
    BY <1>3, <1>4, <1>5 DEF Refuse

\* p is behind place i, or it is ready there: what it did before has been done.
Past(p, i) == pc[p] > i \/ (pc[p] = i /\ wait[p] = "nothing")

\* Who is past a P of a semaphore that only it waits for has had the V.
LEMMA Signalled ==
  ASSUME TypeOK, WaitsFor, Counted, Values
  PROVE  /\ Past(p1, 6) => pc[p2] > 7
         /\ Past(p1, 9) => pc[p3] > 4
         /\ Past(p1, 14) => pc[p5] > 10
         /\ Past(p5, 8) => pc[p4] > 8
         /\ Past(p4, 7) => pc[p4b] > 2
  <1> USE Names
  <1>1. Past(p1, 6) => pc[p2] > 7
    <2>1. Past(p1, 6) => ~(sem["endp2"] < 0)
      BY Waiters, WhoPs DEF Past, TypeOK, Semaphore
    <2> QED
      BY <2>1 DEF Values, N, Past, TypeOK
  <1>2. Past(p1, 9) => pc[p3] > 4
    <2>1. Past(p1, 9) => ~(sem["endp3"] < 0)
      BY Waiters, WhoPs DEF Past, TypeOK, Semaphore
    <2> QED
      BY <2>1 DEF Values, N, Past, TypeOK
  <1>3. Past(p1, 14) => pc[p5] > 10
    <2>1. Past(p1, 14) => ~(sem["endp5"] < 0)
      BY Waiters, WhoPs DEF Past, TypeOK, Semaphore
    <2> QED
      BY <2>1 DEF Values, N, Past, TypeOK
  <1>4. Past(p5, 8) => pc[p4] > 8
    <2>1. Past(p5, 8) => ~(sem["endp4"] < 0)
      BY Waiters, WhoPs DEF Past, TypeOK, Semaphore
    <2> QED
      BY <2>1 DEF Values, N, Past, TypeOK
  <1>5. Past(p4, 7) => pc[p4b] > 2
    <2>1. Past(p4, 7) => ~(sem["synp4"] < 0)
      BY Waiters, WhoPs DEF Past, TypeOK, Semaphore
    <2> QED
      BY <2>1 DEF Values, N, Past, TypeOK
  <1> QED
    BY <1>1, <1>2, <1>3, <1>4, <1>5

\* A member of p8root's family in round r is a process of its own.
LEMMA Members ==
  ASSUME NEW role \in P8Roles, NEW r \in Round
  PROVE  /\ Member(role, r) \in Proc
         /\ Role(Member(role, r)) = role /\ Turn(Member(role, r)) = r
  BY Names

\* One round at a time is on.
LEMMA OneRound ==
  ASSUME TypeOK, CreatedIn8, InOrder, NEW r \in Round
  PROVE  /\ At("p8root", r) \in 0..Ended
         /\ At("p8root", r) \in 1..9 => Now(r)
         /\ \A r2 \in Round : Now(r) /\ Now(r2) => r = r2
  <1>1. At("p8root", r) \in 0..Ended
    BY Members DEF TypeOK, At, P8Roles
  <1>2. At("p8root", r) \in 1..9 => Now(r)
    BY <1>1 DEF CreatedIn8, CreatedIn, InOrder, Now
  <1>3. \A r2 \in Round : Now(r) /\ Now(r2) => r = r2
    BY Names DEF Now, Begun, Over, Round, TypeOK
  <1> QED
    BY <1>1, <1>2, <1>3

\* How far four leaves have got is known from the counts.
LEMMA ReportedType ==
  ASSUME TypeOK, NEW r \in Round
  PROVE  /\ Reported(r) \in 0..4
         /\ Reported(r) = 4 <=> /\ At("leaf1", r) > 1 /\ At("leaf2", r) > 1
                                /\ At("leaf3", r) > 1 /\ At("curiousleaf", r) > 3
         /\ Taken(r) \in 0..4
         /\ Taken(r) = 4 <=> At("p8root", r) > 7
  <1>1. /\ At("leaf1", r) \in 0..Ended /\ At("leaf2", r) \in 0..Ended
        /\ At("leaf3", r) \in 0..Ended /\ At("curiousleaf", r) \in 0..Ended
        /\ At("p8root", r) \in 0..Ended
    BY Members DEF TypeOK, At, P8Roles
  <1> QED
    BY <1>1 DEF Reported, Taken, N

\* The same of the semaphores of a round.
LEMMA RoundSignalled ==
  ASSUME TypeOK, WaitsFor, Counted, Created, CreatedIn8, InOrder, RoundValues, NEW r \in Round
  PROVE  /\ Past(p1, 15 + 2 * r) => At("p8root", r) > 9
         /\ Past(Root(r), 8) => Reported(r) = 4
  <1>1. ASSUME Past(p1, 15 + 2 * r) PROVE At("p8root", r) > 9
    <2>1. CASE Over(r)
      BY <2>1 DEF InOrder
    <2>2. CASE ~Over(r)
      <3>1. pc[p1] = 15 + 2 * r /\ wait[p1] = "nothing"
        BY <1>1, <2>2 DEF Past, Over
      <3>2. Now(r)
        BY <2>2, <3>1 DEF Now, Begun, Round
      <3>3. ~(sem["endp8"] < 0)
        BY <3>1, Waiters, WhoPs DEF Semaphore
      <3>4. sem["endp8"] = N(At("p8root", r) > 9) - N(pc[p1] > 14 + 2 * r)
        BY <3>2 DEF RoundValues
      <3>5. N(pc[p1] > 14 + 2 * r) = 1
        BY <3>1 DEF N, Round
      <3> QED
        BY <3>3, <3>4, <3>5 DEF N
    <2> QED
      BY <2>1, <2>2
  <1>2. ASSUME Past(Root(r), 8) PROVE Reported(r) = 4
    <2>1. CASE At("p8root", r) > 8
      BY <2>1 DEF InOrder
    <2>2. CASE ~(At("p8root", r) > 8)
      <3>1. At("p8root", r) = 8 /\ wait[Root(r)] = "nothing"
        BY <1>2, <2>2 DEF Past, At, Root
      <3>2. Now(r)
        BY <3>1, OneRound
      <3>3. ASSUME sem["endcreate"] < 0 PROVE FALSE
        <4>1. PICK q \in Proc : wait[q] = "endcreate" /\ PAt(q, pc[q] - 1, "endcreate")
          BY <3>3, Waiters DEF Semaphore
        <4>2. Role(q) = "p8root" /\ pc[q] - 1 \in 4..7
          BY <4>1, WhoPs
        <4>3. Turn(q) \in Round /\ q = Member("p8root", Turn(q))
          BY <4>2, Roles DEF P8Roles
        <4>4. pc[q] \in 1..9
          BY <4>2 DEF TypeOK
        <4>5. Now(Turn(q))
          BY <4>3, <4>4, OneRound DEF At
        <4>6. Turn(q) = r
          BY <4>3, <4>5, <3>2, OneRound
        <4> QED
          BY <4>1, <4>3, <4>6, <3>1 DEF Root
      <3>4. sem["endcreate"] = Reported(r) - Taken(r)
        BY <3>2 DEF RoundValues
      <3> QED
        BY <3>1, <3>3, <3>4, ReportedType
    <2> QED
      BY <2>1, <2>2
  <1> QED
    BY <1>1, <1>2

\* p8root holds blkp8 from its first step in the round until its V.
LEMMA RootInside ==
  ASSUME TypeOK, WaitsFor, NEW r \in Round, At("p8root", r) \in 3..8
  PROVE  Inside(Root(r))
  <1>1. Root(r) \in Proc /\ Role(Root(r)) = "p8root" /\ pc[Root(r)] \in 3..8
    BY Members DEF Root, At, P8Roles
  <1>2. wait[Root(r)] # "blkp8"
    BY <1>1, WhoPs DEF WaitsFor, Semaphore, LeafRoles
  <1> QED
    BY <1>1, <1>2 DEF Inside

\* The members of the family that wait for the mutex at their end, and how far they
\* are when they have it.
Late == {"child1", "child2", "leaf2", "leaf3"}
HasIt(role) == IF role \in {"child1", "child2"} THEN 4 ELSE 3

\* They have it only after p8root has left it.
LEMMA LateInside ==
  ASSUME TypeOK, WaitsFor, CreatedIn8, Mutex, NEW r \in Round, NEW role \in Late,
         At(role, r) = HasIt(role), wait[Member(role, r)] = "nothing"
  PROVE  At("p8root", r) > 8
  <1>1. /\ Member(role, r) \in Proc /\ Role(Member(role, r)) = role
        /\ Root(r) \in Proc /\ Role(Root(r)) = "p8root"
    BY Members DEF P8Roles, Root, Late
  <1>2. Inside(Member(role, r))
    BY <1>1 DEF Inside, At, Late, HasIt, LeafRoles
  <1>3. ~Inside(Root(r))
    BY <1>1, <1>2 DEF Mutex, Late
  <1>4. /\ At("p8root", r) \in 0..Ended /\ At("child2", r) \in 0..Ended
        /\ At(role, r) > 0
    BY <1>1, Members DEF TypeOK, At, P8Roles, HasIt
  <1>5. At("p8root", r) > 2
    <2>1. CASE role = "child1"
      BY <1>4, <2>1 DEF CreatedIn8, CreatedIn
    <2>2. CASE role # "child1"
      <3>1. At("child2", r) > 0
        BY <1>4, <2>2 DEF CreatedIn8, CreatedIn, Late
      <3> QED
        BY <1>4, <3>1 DEF CreatedIn8, CreatedIn
    <2> QED
      BY <2>1, <2>2
  <1> QED
    BY <1>3, <1>4, <1>5, RootInside

\* Some of four places have a first and a last one.
LEMMA FirstAndLast ==
  ASSUME NEW S \in SUBSET (1..4), S # {}
  PROVE  /\ \E i \in S : \A j \in S : j <= i
         /\ \E i \in S : \A j \in S : i <= j
  <1>1. \E i \in S : \A j \in S : j <= i
    <2>1. CASE 4 \in S
      BY <2>1
    <2>2. CASE 4 \notin S /\ 3 \in S
      BY <2>2
    <2>3. CASE 4 \notin S /\ 3 \notin S /\ 2 \in S
      BY <2>3
    <2>4. CASE 4 \notin S /\ 3 \notin S /\ 2 \notin S
      <3>1. \A j \in S : j = 1
        BY <2>4
      <3>2. 1 \in S
        BY <3>1
      <3> QED
        BY <3>1, <3>2
    <2> QED
      BY <2>1, <2>2, <2>3, <2>4
  <1>2. \E i \in S : \A j \in S : i <= j
    <2>1. CASE 1 \in S
      BY <2>1
    <2>2. CASE 1 \notin S /\ 2 \in S
      BY <2>2
    <2>3. CASE 1 \notin S /\ 2 \notin S /\ 3 \in S
      BY <2>3
    <2>4. CASE 1 \notin S /\ 2 \notin S /\ 3 \notin S
      <3>1. \A j \in S : j = 4
        BY <2>4
      <3>2. 4 \in S
        BY <3>1
      <3> QED
        BY <3>1, <3>2
    <2> QED
      BY <2>1, <2>2, <2>3, <2>4
  <1> QED
    BY <1>1, <1>2

\* p's line is made of processes, its parent first.
LEMMA LineType ==
  ASSUME TypeOK, NEW q \in Proc
  PROVE  /\ \A i \in 1..4 : Line(q)[i] \in Proc \cup {NULL}
         /\ Line(q)[1] = parent[q]
  <1> DEFINE a == Up(q)
             b == Up(a)
             c == Up(b)
             d == Up(c)
  <1>1. \A x \in Proc \cup {NULL} : Up(x) \in Proc \cup {NULL}
    BY DEF Up, TypeOK
  <1>2. a \in Proc \cup {NULL} /\ a = parent[q]
    BY <1>1, Names DEF Up
  <1> HIDE DEF a
  <1>3. b \in Proc \cup {NULL}
    BY <1>1, <1>2
  <1> HIDE DEF b
  <1>4. c \in Proc \cup {NULL}
    BY <1>1, <1>3
  <1> HIDE DEF c
  <1>5. d \in Proc \cup {NULL}
    BY <1>1, <1>4
  <1>6. Line(q) = <<a, b, c, d>>
    BY DEF Line, a, b, c
  <1> HIDE DEF d
  <1> QED
    BY <1>2, <1>3, <1>4, <1>5, <1>6

\* Processes adopt, and a parent that is a tutor before all others.
LEMMA AdoptersAre ==
  ASSUME TypeOK, NEW q \in Proc
  PROVE  /\ Adopters(q) \subseteq Proc
         /\ parent[q] \in tutor => Adopters(q) = {parent[q]}
  <1> DEFINE up == Line(q)
             ancestors == {i \in 1..4 : up[i] # NULL}
             tutors == {i \in ancestors : up[i] \in tutor}
             top == CHOOSE i \in ancestors : \A j \in ancestors : j <= i
             near == CHOOSE i \in tutors : \A j \in tutors : i <= j
  <1>1. Adopters(q) = IF tutors # {} THEN {up[near]}
                      ELSE IF Longer(q) THEN Proc
                      ELSE IF ancestors = {} THEN {q} ELSE {up[top]}
    BY DEF Adopters
  <1>2. ASSUME ancestors # {} PROVE top \in ancestors
    <2>1. \E i \in ancestors : \A j \in ancestors : j <= i
      <3>1. ancestors \in SUBSET (1..4)
        OBVIOUS
      <3> HIDE DEF ancestors
      <3> QED
        BY <3>1, <1>2, FirstAndLast
    <2> QED
      BY <2>1
  <1>3. ASSUME tutors # {} PROVE near \in tutors /\ \A j \in tutors : near <= j
    <2>1. \E i \in tutors : \A j \in tutors : i <= j
      <3>1. tutors \in SUBSET (1..4)
        OBVIOUS
      <3> HIDE DEF tutors
      <3> QED
        BY <3>1, <1>3, FirstAndLast
    <2> QED
      BY <2>1
  <1>4. \A i \in ancestors : i \in 1..4 /\ up[i] \in Proc
    BY LineType
  <1>5. tutors \subseteq ancestors
    OBVIOUS
  <1>6. ASSUME parent[q] \in tutor PROVE 1 \in tutors /\ up[1] = parent[q]
    BY <1>6, LineType, Names DEF TypeOK
  <1> HIDE DEF top, near, tutors, ancestors, up
  <1>7. Adopters(q) \subseteq Proc
    <2>1. CASE tutors # {}
      BY <2>1, <1>1, <1>3, <1>4, <1>5
    <2>2. CASE tutors = {} /\ ~Longer(q) /\ ancestors # {}
      BY <2>2, <1>1, <1>2, <1>4
    <2> QED
      BY <2>1, <2>2, <1>1
  <1>8. ASSUME parent[q] \in tutor PROVE Adopters(q) = {parent[q]}
    <2>1. near \in 1..4 /\ near <= 1
      BY <1>3, <1>4, <1>5, <1>6, <1>8
    <2>2. near = 1
      BY <2>1
    <2> QED
      BY <1>1, <1>6, <1>8, <2>2
  <1> QED
    BY <1>7, <1>8

\* The clock, and nothing, are no semaphores.
LEMMA NoSemaphore == "nothing" \notin Semaphore /\ "clock" \notin Semaphore
  BY DEF Semaphore

\* An heir is a child.
LEMMA Adoption ==
  ASSUME TypeOK, NEW q \in Proc, End(q)
  PROVE  Adopt(q)
  <1>1. PICK heir \in Heirs(q), adopter \in Adopters(q) :
          parent' = [c \in Proc |-> IF c = q THEN NULL
                                   ELSE IF c = heir THEN adopter ELSE parent[c]]
    BY DEF End
  <1>2. heir \in Children(q) \cup {NULL}
    BY DEF Heirs
  <1>3. adopter \in Proc /\ (parent[q] \in tutor => adopter = parent[q])
    BY AdoptersAre
  <1> QED
    BY <1>1, <1>2, <1>3 DEF Adopt

\* The end of a process that waits for nothing.
LEMMA EndOfReady ==
  ASSUME TypeOK, NEW p \in Proc, wait[p] = "nothing", End(p)
  PROVE  Adopt(p) /\ UNCHANGED <<wait, sem>>
  <1>1. [wait EXCEPT ![p] = "nothing"] = wait
    BY DEF TypeOK
  <1>2. wait[p] \notin Semaphore
    BY NoSemaphore
  <1> QED
    BY <1>1, <1>2, Adoption DEF End, GiveBack

\* SYS3 and the traps nobody handles.
LEMMA EndSteps ==
  ASSUME IInv, NEW p \in Proc, Terminate(p) \/ Trap(p)
  PROVE  EndStep(p) \/ QuietStep(p)
  <1> USE DEF IInv
  <1>1. ASSUME Terminate(p) PROVE EndStep(p)
    <2>1. Ready(p) /\ Instruction(p)[1] = "Terminate"
      BY <1>1 DEF Terminate, Does
    <2>2. EndAt(p, pc[p]) /\ wait[p] = "nothing"
      BY <2>1, AtPlace DEF Fits
    <2>3. Adopt(p) /\ UNCHANGED <<wait, sem>>
      BY <1>1, <2>2, EndOfReady DEF Terminate
    <2> QED
      BY <1>1, <2>1, <2>2, <2>3 DEF EndStep, Terminate
  <1>2. ASSUME Trap(p), EndAt(p, pc[p]), Role(p) # "p5" PROVE EndStep(p)
    <2>1. Ready(p) /\ wait[p] = "nothing"
      BY <1>2 DEF Trap, Does, Ready
    <2>2. pc' = [pc EXCEPT ![p] = Ended] /\ End(p)
          /\ UNCHANGED <<tutor, handlers, pids, p1p2synch, failed>>
      BY <1>2 DEF Trap, Role
    <2>3. Adopt(p) /\ UNCHANGED <<wait, sem>>
      BY <2>1, <2>2, EndOfReady
    <2> QED
      BY <1>2, <2>1, <2>2, <2>3 DEF EndStep
  <1>3. ASSUME Trap(p), Role(p) = "p5", pc[p] \in 4..6, Argument(p) \in handlers
        PROVE  QuietStep(p)
    <2>1. Ready(p) /\ QuietAt(p, pc[p])
      BY <1>3 DEF Trap, Does, QuietAt
    <2>2. /\ Moves(p) /\ UNCHANGED <<wait, sem, parent>>
          /\ UNCHANGED <<tutor, handlers, pids, p1p2synch, failed>>
      BY <1>3 DEF Trap, GoOn, Moves, Role
    <2> QED
      BY <1>3, <2>1, <2>2 DEF QuietStep, TypeOK
  <1>4. ASSUME Trap(p) PROVE EndStep(p) \/ QuietStep(p)
    <2>1. Ready(p) /\ Instruction(p)[1] = "Trap"
      BY <1>4 DEF Trap, Does
    <2>2. \/ Role(p) # "p5" /\ EndAt(p, pc[p])
          \/ /\ Role(p) = "p5"
             /\ \/ pc[p] = 4 /\ Argument(p) = "PGMTRAP"
                \/ pc[p] = 5 /\ Argument(p) = "TLB"
                \/ pc[p] = 6 /\ Argument(p) = "SYSBK"
      BY <2>1, AtPlace DEF Fits, Argument
    <2>3. ASSUME Role(p) = "p5" PROVE pc[p] \in 4..6 /\ Argument(p) \in handlers
      BY <2>2, <2>3, Roles DEF Done
    <2> QED
      BY <1>2, <1>3, <1>4, <2>2, <2>3
  <1> QED
    BY <1>1, <1>4

\* p4 kills p4b, its child, which has given it the sign.
LEMMA KillSteps ==
  ASSUME IInv, NEW p \in Proc, Kill(p)
  PROVE  KillStep
  <1> USE DEF IInv
  <1>1. Ready(p) /\ Instruction(p)[1] = "Kill"
    BY DEF Kill, Does
  <1>2. Role(p) = "p4" /\ pc[p] = 7 /\ Instruction(p) = <<"Kill", "p4b">> /\ wait[p] = "nothing"
    BY <1>1, AtPlace DEF Fits
  <1>3. p = p4 /\ Past(p4, 7)
    BY <1>2, Roles DEF Past
  <1>4. Named(p) = p4b
    BY <1>2 DEF Named, Argument, p4b, P8Roles
  <1>5. pc[p4b] > 2 /\ pc[p4b] # Ended /\ parent[p4b] = p4
    <2>1. pc[p4b] > 2
      BY <1>3, Signalled
    <2>2. pc[p4] = 7 /\ pc[p4b] \in 0..Ended
      BY <1>2, <1>3, Names DEF TypeOK
    <2> QED
      BY <2>1, <2>2 DEF P4Facts
  <1>6. Alive(p4b) /\ pc[p4b] \in {3, 4}
    BY <1>5, Names, Lengths DEF Alive, TypeOK, InCode, LeafRoles
  <1>7. Line(p4b)[1] = p4
    BY <1>5, Names DEF Line, Up
  <1>8. ~NoDescendant(p4b, p4)
    BY <1>7 DEF NoDescendant
  <1>9. KillAs(p4, p4b, TRUE) /\ UNCHANGED <<tutor, handlers, pids, p1p2synch>>
    BY <1>3, <1>4 DEF Kill
  <1>10. /\ pc' = [pc EXCEPT ![p4] = pc[p4] + 1, ![p4b] = Ended]
         /\ End(p4b) /\ Report(~TRUE)
    BY <1>8, <1>9 DEF KillAs
  <1>13. Adopt(p4b) /\ wait' = [wait EXCEPT ![p4b] = "nothing"] /\ GiveBack(p4b)
    BY <1>10, Adoption, Names DEF End
  <1>11. ~failed'
    BY <1>10 DEF Report
  <1>12. pc' = [pc EXCEPT ![p4] = 8, ![p4b] = Ended]
    <2>1. pc[p4] = 7
      BY <1>2, <1>3
    <2>2. pc[p4] + 1 = 8
      BY <2>1
    <2> QED
      BY <2>2, <1>10
  <1> QED
    BY <1>1, <1>2, <1>3, <1>6, <1>9, <1>11, <1>12, <1>13 DEF KillStep

\* Until curiousleaf has reported, p8root waits in its mutex.
LEMMA CuriousEarly ==
  ASSUME IInv, NEW r \in Round, At("curiousleaf", r) \in 1..3
  PROVE  /\ At("intermediate", r) > 1 /\ At("intermediate", r) \in 0..Ended
         /\ At("child1", r) > 2 /\ At("p8root", r) \in 3..8
  <1> USE DEF IInv
  <1>1. /\ At("curiousleaf", r) \in 0..Ended /\ At("intermediate", r) \in 0..Ended
        /\ At("child1", r) \in 0..Ended /\ At("p8root", r) \in 0..Ended
    BY Members DEF TypeOK, At, P8Roles
  <1>2. At("intermediate", r) > 1
    BY <1>1 DEF CreatedIn8, CreatedIn
  <1>3. At("child1", r) > 2
    BY <1>1, <1>2 DEF CreatedIn8, CreatedIn
  <1>4. At("p8root", r) > 2
    BY <1>1, <1>3 DEF CreatedIn8, CreatedIn
  <1>5. Reported(r) # 4
    BY ReportedType
  <1>6. At("p8root", r) \in 3..8
    BY <1>1, <1>4, <1>5 DEF InOrder
  <1> QED
    BY <1>1, <1>2, <1>3, <1>6

\* The ancestors of whom curiousleaf may take for its parent: curiousleaf is not
\* among them, and their line ends.
LEMMA ShortLines ==
  ASSUME IInv, NEW r \in Round, At("p8root", r) \in 3..8,
         NEW q \in {Member("intermediate", r), Member("child1", r), Member("child2", r),
                    Member("leaf2", r), Member("leaf3", r)}
  PROVE  NoDescendant(q, Member("curiousleaf", r)) /\ ~Longer(q)
  <1> DEFINE child1 == Member("child1", r)
             child2 == Member("child2", r)
             S2 == {NULL, p1, Root(r)}
             S3 == S2 \cup {child1, child2}
             a == Up(q)
             b == Up(a)
             c == Up(b)
             d == Up(c)
  <1> USE DEF IInv
  <1>1. FamilyOf(r) /\ Rootless
    BY DEF Families
  <1>2. Up(NULL) = NULL /\ Up(p1) = NULL
    BY <1>1, Names DEF Up, Rootless
  <1>3. \A x \in Proc : Up(x) = parent[x] /\ (pc[x] > 0 \/ pc[x] = 0)
    BY Names DEF Up, TypeOK
  <1>4. \A x \in Proc : pc[x] = 0 => parent[x] = NULL
    BY <1>1 DEF Rootless, Alive
  <1>5. Up(Root(r)) = p1
    BY <1>1, <1>3, Members DEF FamilyOf, Root, P8Roles
  <1>6. Up(child1) \in {NULL, Root(r)} /\ Up(child2) \in {NULL, Root(r)}
    BY <1>1, <1>3, <1>4, Members DEF FamilyOf, P8Roles
  <1>7. \A leaf \in {Member("leaf2", r), Member("leaf3", r)} : Up(leaf) \in {NULL, child2}
    BY <1>1, <1>3, <1>4, Members DEF FamilyOf, P8Roles
  <1>8. Up(Member("intermediate", r)) \in {NULL, child1}
    BY <1>1, <1>3, Members DEF FamilyOf, P8Roles, Rootless
  <1>9. a \in S3
    BY <1>2, <1>5, <1>6, <1>7, <1>8
  <1> HIDE DEF a
  <1>10. b \in S2
    BY <1>9, <1>2, <1>5, <1>6
  <1> HIDE DEF b
  <1>11. c \in {NULL, p1}
    BY <1>10, <1>2, <1>5
  <1> HIDE DEF c
  <1>12. d = NULL
    BY <1>11, <1>2
  <1> HIDE DEF d
  <1>13. Line(q) = <<a, b, c, d>>
    BY DEF Line, a, b, c, d
  <1>14. Member("curiousleaf", r) \notin S3
    BY Names DEF Root, P8Roles, Member, p1, NULL
  <1>15. \A i \in 1..4 : Line(q)[i] \in S3
    BY <1>9, <1>10, <1>11, <1>12, <1>13
  <1>16. NoDescendant(q, Member("curiousleaf", r))
    BY <1>14, <1>15 DEF NoDescendant
  <1>17. Up(Line(q)[4]) = NULL
    BY <1>2, <1>12, <1>13
  <1> QED
    BY <1>16, <1>17 DEF Longer

\* Who is curiousleaf's parent before it has been adopted.
LEMMA CuriousParent ==
  ASSUME IInv, NEW r \in Round, At("curiousleaf", r) \in 1..3
  PROVE  parent[Member("curiousleaf", r)]
           \in {Member("intermediate", r), Member("child1", r), Member("child2", r),
                Member("leaf2", r), Member("leaf3", r)}
  <1>1. FamilyOf(r)
    BY DEF IInv, Families
  <1>2. /\ At("intermediate", r) > 0 /\ At("p8root", r) \in 1..8
    BY CuriousEarly
  <1> QED
    BY <1>1, <1>2 DEF FamilyOf, At

\* curiousleaf cannot kill its parent.
LEMMA KillParentSteps ==
  ASSUME IInv, NEW p \in Proc, KillParentFails(p)
  PROVE  QuietStep(p)
  <1> USE DEF IInv
  <1>1. Ready(p) /\ Instruction(p)[1] = "KillParentFails"
    BY DEF KillParentFails, Does
  <1>2. Role(p) = "curiousleaf" /\ pc[p] = 1
    BY <1>1, AtPlace DEF Fits
  <1>3. PICK r \in Round : p = Member("curiousleaf", r)
    BY <1>2, Roles DEF P8Roles
  <1>4. NoDescendant(parent[p], p) /\ ~Longer(parent[p])
    BY <1>2, <1>3, CuriousEarly, CuriousParent, ShortLines DEF At
  <1>5. ~Descends(parent[p], p)
    BY <1>4 DEF Descends, NoDescendant
  <1>6. /\ GoOn(p) /\ Report(FALSE) /\ UNCHANGED <<wait, sem, parent>>
        /\ UNCHANGED <<tutor, handlers, pids, p1p2synch>>
    BY <1>5 DEF KillParentFails, KillAs
  <1>7. ~failed'
    BY <1>6 DEF Report
  <1>8. QuietAt(p, pc[p]) /\ Role(p) \notin {"child1", "p5", "p2"}
    BY <1>2 DEF QuietAt
  <1> QED
    BY <1>1, <1>6, <1>7, <1>8 DEF QuietStep, GoOn, Moves, TypeOK

\* The waits for the clock.
LEMMA ClockSteps ==
  ASSUME IInv, NEW p \in Proc, WaitClock(p) \/ Delay(p)
  PROVE  QuietStep(p)
  <1> USE DEF IInv
  <1>1. Ready(p) /\ Instruction(p)[1] \in {"WaitClock", "Delay"}
    BY DEF WaitClock, Delay, Does
  <1>2. QuietAt(p, pc[p]) /\ Role(p) # "child1" /\ Role(p) # "p2"
        /\ (Role(p) = "p5" => pc[p] = 8)
    BY <1>1, AtPlace DEF Fits, QuietAt
  <1>3. /\ Moves(p) \/ UNCHANGED pc
        /\ wait' = [wait EXCEPT ![p] = "clock"]
        /\ UNCHANGED <<sem, parent, tutor, pids, handlers, p1p2synch, failed>>
    BY DEF WaitClock, Delay, GoOn, Moves, family
  <1> QED
    BY <1>1, <1>2, <1>3 DEF QuietStep, TypeOK

\* SYS8 of child1, the handlers of p5 and the sign of p2.
LEMMA OwnSteps ==
  ASSUME IInv, NEW p \in Proc, SetTutor(p) \/ SpecPassup(p) \/ Synch(p)
  PROVE  QuietStep(p)
  <1> USE DEF IInv
  <1>1. ASSUME SetTutor(p) PROVE QuietStep(p)
    <2>1. Ready(p) /\ Instruction(p)[1] = "SetTutor"
      BY <1>1 DEF SetTutor, Does
    <2>2. Role(p) = "child1" /\ pc[p] = 1 /\ QuietAt(p, pc[p])
      BY <2>1, AtPlace DEF Fits, QuietAt
    <2>3. /\ Moves(p) /\ tutor' = tutor \cup {p}
          /\ UNCHANGED <<wait, sem, parent, handlers, pids, p1p2synch, failed>>
      BY <1>1 DEF SetTutor, GoOn, Moves
    <2> QED
      BY <2>1, <2>2, <2>3 DEF QuietStep, TypeOK
  <1>2. ASSUME SpecPassup(p) PROVE QuietStep(p)
    <2>1. Ready(p) /\ Instruction(p)[1] = "SpecPassup"
      BY <1>2 DEF SpecPassup, Does
    <2>2. /\ Role(p) = "p5" /\ QuietAt(p, pc[p])
          /\ \/ pc[p] = 1 /\ Argument(p) = "PGMTRAP"
             \/ pc[p] = 2 /\ Argument(p) = "TLB"
             \/ pc[p] = 3 /\ Argument(p) = "SYSBK"
      BY <2>1, AtPlace DEF Fits, QuietAt, Argument
    <2>3. /\ Moves(p) /\ handlers' = handlers \cup {Argument(p)}
          /\ UNCHANGED <<wait, sem, parent, tutor, pids, p1p2synch, failed>>
      BY <1>2 DEF SpecPassup, GoOn, Moves, family
    <2>4. /\ handlers \subseteq handlers' /\ handlers' \subseteq {"PGMTRAP", "TLB", "SYSBK"}
          /\ pc[p] = 1 => "PGMTRAP" \in handlers'
          /\ pc[p] = 2 => "TLB" \in handlers'
          /\ pc[p] = 3 => "SYSBK" \in handlers'
      <3>1. \/ pc[p] = 1 /\ handlers' = handlers \cup {"PGMTRAP"}
            \/ pc[p] = 2 /\ handlers' = handlers \cup {"TLB"}
            \/ pc[p] = 3 /\ handlers' = handlers \cup {"SYSBK"}
        BY <2>2, <2>3
      <3>2. handlers \subseteq {"PGMTRAP", "TLB", "SYSBK"}
        BY DEF TypeOK
      <3>3. CASE pc[p] = 1 /\ handlers' = handlers \cup {"PGMTRAP"}
        BY <3>2, <3>3
      <3>4. CASE pc[p] = 2 /\ handlers' = handlers \cup {"TLB"}
        BY <3>2, <3>4
      <3>5. CASE pc[p] = 3 /\ handlers' = handlers \cup {"SYSBK"}
        BY <3>2, <3>5
      <3> QED
        BY <3>1, <3>3, <3>4, <3>5
    <2>5. /\ tutor' = tutor /\ wait' = wait /\ p1p2synch' = p1p2synch /\ ~failed'
          /\ tutor \subseteq Proc /\ p1p2synch \in BOOLEAN
          /\ UNCHANGED <<sem, parent, pids>>
      BY <2>3 DEF TypeOK
    <2>6. Role(p) # "child1" /\ Role(p) # "p2"
      BY <2>2
    <2>7. Ready(p) /\ QuietAt(p, pc[p]) /\ Moves(p)
      BY <2>1, <2>2, <2>3
    <2> QED
      BY <2>4, <2>5, <2>6, <2>7 DEF QuietStep
  <1>3. ASSUME Synch(p) PROVE QuietStep(p)
    <2>1. Ready(p) /\ Instruction(p)[1] = "Synch"
      BY <1>3 DEF Synch, Does
    <2>2. Role(p) = "p2" /\ pc[p] = 6 /\ QuietAt(p, pc[p])
      BY <2>1, AtPlace DEF Fits, QuietAt
    <2>3. /\ Moves(p) /\ p1p2synch' = TRUE
          /\ UNCHANGED <<wait, sem, parent, tutor, pids, handlers, failed>>
      BY <1>3 DEF Synch, GoOn, Moves, family
    <2>4. p1p2synch' /\ p1p2synch' \in BOOLEAN
      BY <2>3
    <2>5. /\ tutor' = tutor /\ handlers' = handlers /\ wait' = wait /\ ~failed'
          /\ tutor \subseteq Proc /\ handlers \subseteq {"PGMTRAP", "TLB", "SYSBK"}
          /\ UNCHANGED <<sem, parent, pids>>
      BY <2>3 DEF TypeOK
    <2>6. Role(p) # "child1" /\ Role(p) # "p5"
      BY <2>2
    <2> QED
      BY <2>1, <2>2, <2>3, <2>4, <2>5, <2>6 DEF QuietStep
  <1> QED
    BY <1>1, <1>2, <1>3

\* What the programs check is so.
LEMMA CheckSteps ==
  ASSUME IInv, NEW p \in Proc, Checks(p)
  PROVE  QuietStep(p)
  <1> USE DEF IInv
  <1>1. ASSUME Check(p)
        PROVE  Report(FALSE) /\ QuietAt(p, pc[p]) /\ Role(p) \in {"p1", "p2"} /\ pc[p] # 6
    <2>1. Ready(p) /\ Instruction(p)[1] = "Check"
      BY <1>1 DEF Check, Does
    <2>2. \/ p = p1 /\ pc[p] = 2 /\ Argument(p) = "testsem" /\ Instruction(p)[3] = 1
          \/ p = p2 /\ pc[p] = 4 /\ Argument(p) = "s" /\ Instruction(p)[3] = 0
      BY <2>1, AtPlace, Roles DEF Fits, Argument
    <2>3. sem[Argument(p)] = Instruction(p)[3]
      BY <2>2 DEF Values, N
    <2>4. Report(sem[Argument(p)] # Instruction(p)[3])
      BY <1>1 DEF Check
    <2>5. Report(FALSE)
      BY <2>3, <2>4
    <2>6. CASE p = p1 /\ pc[p] = 2
      <3>1. QuietAt(p, pc[p]) /\ Role(p) \in {"p1", "p2"} /\ pc[p] # 6
        BY <2>6, Names DEF QuietAt
      <3> QED
        BY <2>5, <3>1
    <2>7. CASE p = p2 /\ pc[p] = 4
      <3>1. QuietAt(p, pc[p]) /\ Role(p) \in {"p1", "p2"} /\ pc[p] # 6
        BY <2>7, Names DEF QuietAt
      <3> QED
        BY <2>5, <3>1
    <2> QED
      BY <2>2, <2>6, <2>7
  <1>2. ASSUME CheckSynch(p) PROVE Report(FALSE) /\ QuietAt(p, pc[p]) /\ Role(p) = "p1"
    <2>1. Ready(p) /\ Instruction(p)[1] = "CheckSynch"
      BY <1>2 DEF CheckSynch, Does
    <2>2. p = p1 /\ pc[p] = 6 /\ wait[p] = "nothing"
      BY <2>1, AtPlace, Roles DEF Fits
    <2>3. pc[p2] > 7 /\ pc[p2] \in 0..Ended
      BY <2>2, Signalled, Names DEF Past, TypeOK
    <2>4. p1p2synch
      BY <2>3, Lengths DEF Done
    <2>5. Report(~p1p2synch)
      BY <1>2 DEF CheckSynch
    <2>6. Report(FALSE)
      BY <2>4, <2>5 DEF Report
    <2> QED
      BY <2>2, <2>6, Names DEF QuietAt
  <1>3. ASSUME CheckParent(p) PROVE Report(FALSE) /\ QuietAt(p, pc[p]) /\ Role(p) = "p4b"
    <2>1. Ready(p) /\ Instruction(p)[1] = "CheckParent"
      BY <1>3 DEF CheckParent, Does
    <2>2. p = p4b /\ pc[p] = 1 /\ Argument(p) = "p4"
      BY <2>1, AtPlace, Roles DEF Fits, Argument
    <2>3. pc[p4] \in 0..Ended
      BY Names DEF TypeOK
    <2>4. pc[p4b] > 0 /\ pc[p4b] # Ended
      BY <2>2, Lengths
    <2>5. pc[p4] < 8 /\ pc[p4] > 5
      BY <2>3, <2>4 DEF P4Facts, Created
    <2>7. parent[p] = p4 /\ pids[Argument(p)] = p4
      BY <2>2, <2>3, <2>4, <2>5 DEF P4Facts
    <2>8. Report(parent[p] # pids[Argument(p)])
      BY <1>3 DEF CheckParent
    <2>9. Report(FALSE)
      BY <2>7, <2>8
    <2> QED
      BY <2>2, <2>9, Names DEF QuietAt
  <1>4. ASSUME SpecPassupFails(p)
        PROVE  Report(FALSE) /\ QuietAt(p, pc[p]) /\ Role(p) = "p5" /\ pc[p] = 11
    <2>1. Ready(p) /\ Instruction(p)[1] = "SpecPassupFails"
      BY <1>4 DEF SpecPassupFails, Does
    <2>2. p = p5 /\ pc[p] = 11 /\ Argument(p) = "PGMTRAP"
      BY <2>1, AtPlace, Roles DEF Fits, Argument
    <2>3. Argument(p) \in handlers
      BY <2>2 DEF Done
    <2>4. Report(Argument(p) \notin handlers)
      BY <1>4 DEF SpecPassupFails
    <2>5. Report(FALSE)
      BY <2>3, <2>4 DEF Report
    <2> QED
      BY <2>2, <2>5, Names DEF QuietAt
  <1>8. ASSUME CheckPid(p) PROVE Report(FALSE) /\ QuietAt(p, pc[p]) /\ Role(p) = "p4"
    <2>1. Ready(p) /\ Instruction(p)[1] = "CheckPid"
      BY <1>8 DEF CheckPid, Does
    <2>2. p = p4 /\ pc[p] = 1 /\ Argument(p) = "p4"
      BY <2>1, AtPlace, Roles DEF Fits, Argument
    <2>3. pids[Argument(p)] = p
      BY <2>2 DEF P4Facts
    <2>4. Report(pids[Argument(p)] # p)
      BY <1>8 DEF CheckPid
    <2>5. Report(FALSE)
      BY <2>3, <2>4
    <2> QED
      BY <2>2, <2>5, Names DEF QuietAt
  <1>9. ASSUME CheckTimes(p)
        PROVE  ~failed' /\ QuietAt(p, pc[p]) /\ Role(p) \in {"p2", "p3"} /\ pc[p] # 6
    <2>1. Ready(p) /\ Instruction(p)[1] = "CheckTimes" /\ UNCHANGED failed
      BY <1>9 DEF CheckTimes, Does
    <2>2. (Role(p) = "p2" /\ pc[p] = 5) \/ (Role(p) = "p3" /\ pc[p] = 3)
      BY <2>1, AtPlace DEF Fits
    <2> QED
      BY <2>1, <2>2 DEF QuietAt
  <1>7. Report(FALSE) => ~failed'
    BY DEF Report
  <1>5. /\ ~failed' /\ QuietAt(p, pc[p]) /\ Role(p) # "child1"
        /\ (Role(p) = "p5" => pc[p] = 11) /\ (Role(p) = "p2" => pc[p] # 6)
    BY <1>1, <1>2, <1>3, <1>4, <1>7, <1>8, <1>9 DEF Checks
  <1>6. /\ Ready(p) /\ Moves(p)
        /\ UNCHANGED <<wait, sem, parent, tutor, pids, handlers, p1p2synch>>
    BY DEF Checks, Check, CheckSynch, CheckPid, CheckParent, SpecPassupFails, CheckTimes, Does,
           GoOn, Moves, family
  <1> QED
    BY <1>5, <1>6 DEF QuietStep, TypeOK

\* curiousleaf's parent is the one intermediatepid names, or child1.
LEMMA AwaitSteps ==
  ASSUME IInv, NEW p \in Proc, AwaitAdoption(p)
  PROVE  QuietStep(p)
  <1> USE DEF IInv
  <1>1. Ready(p) /\ Instruction(p)[1] = "AwaitAdoption"
    BY DEF AwaitAdoption, Does
  <1>2. Role(p) = "curiousleaf" /\ pc[p] = 2
    BY <1>1, AtPlace DEF Fits
  <1>3. PICK r \in Round : p = Member("curiousleaf", r)
    BY <1>2, Roles DEF P8Roles
  <1>4. At("curiousleaf", r) = 2
    BY <1>2, <1>3 DEF At
  <1>5. At("intermediate", r) > 0 /\ At("child1", r) > 0 /\ At("p8root", r) \in 1..8
    <2>1. At("child1", r) \in 0..Ended
      BY Members DEF TypeOK, At, P8Roles
    <2> QED
      BY <1>4, <2>1, CuriousEarly
  <1>6. FamilyOf(r)
    BY DEF Families
  <1>7. /\ pids["child1"] = Member("child1", r)
        /\ Alive(Member("intermediate", r)) => pids["intermediate"] = Member("intermediate", r)
        /\ parent[p] \in IF Alive(Member("intermediate", r)) THEN {Member("intermediate", r)}
                         ELSE {Member("child1", r), pids["intermediate"]}
    BY <1>3, <1>4, <1>5, <1>6 DEF FamilyOf, At
  <1>8. parent[p] \in {pids["child1"], pids["intermediate"]}
    BY <1>7
  <1>11. Report(parent[p] \notin {pids["child1"], pids["intermediate"]})
    BY DEF AwaitAdoption
  <1>12. ~failed'
    BY <1>8, <1>11 DEF Report
  <1>13. QuietAt(p, pc[p])
    BY <1>2 DEF QuietAt
  <1>14. \/ Moves(p) /\ UNCHANGED wait
         \/ wait' = [wait EXCEPT ![p] = "clock"] /\ UNCHANGED pc
    BY DEF AwaitAdoption, GoOn, Moves
  <1>15. UNCHANGED <<sem, parent, tutor, pids, handlers, p1p2synch>>
    BY DEF AwaitAdoption, family
  <1> QED
    BY <1>1, <1>2, <1>12, <1>13, <1>14, <1>15 DEF QuietStep, TypeOK

\* Every step of a process is one of these, unless there is no PCB left.
LEMMA Forms ==
  ASSUME IInv, NEW p \in Proc, Step(p)
  PROVE  \/ refused'
         \/ \E s \in Semaphore : PStep(p, s) \/ VStep(p, s)
         \/ \E c \in Proc : CreateStep(p, c)
         \/ QuietStep(p) \/ EndStep(p) \/ KillStep
  BY PSteps, VSteps, CreateSteps, EndSteps, KillSteps, KillParentSteps, ClockSteps, OwnSteps,
     CheckSteps, AwaitSteps
  DEF Step

\* Nobody goes on; the clock may have woken who waited for it.
Still ==
  /\ UNCHANGED <<pc, sem, parent, tutor, pids, handlers, p1p2synch, failed>>
  /\ \/ UNCHANGED wait
     \/ wait' = [q \in Proc |-> IF wait[q] = "clock" THEN "nothing" ELSE wait[q]]

\* Every step of the test is one of the forms.
LEMMA AnyForm ==
  ASSUME IInv, [Next]_vars, ~refused'
  PROVE  \/ \E p \in Proc : \/ \E s \in Semaphore : PStep(p, s) \/ VStep(p, s)
                            \/ \E c \in Proc : CreateStep(p, c)
                            \/ QuietStep(p) \/ EndStep(p)
         \/ KillStep \/ Still
  <1>1. ASSUME Tick PROVE Still
    BY <1>1 DEF Tick, Still, family
  <1>2. ASSUME Stopped \/ UNCHANGED vars PROVE Still
    BY <1>2 DEF Stopped, vars, Still
  <1> QED
    BY <1>1, <1>2, Forms DEF Next

----------------------------------------------------------------------------
(* The invariant is kept, part by part. *)

\* pc after a step that moves p.
LEMMA AfterMove ==
  ASSUME TypeOK, InCode, NEW p \in Proc, Ready(p), NEW s,
         \/ PAt(p, pc[p], s) \/ VAt(p, pc[p], s) \/ CreateAt(p, pc[p], s) \/ QuietAt(p, pc[p])
         \/ Role(p) = "p4" /\ pc[p] = 7
  PROVE  pc[p] + 1 \in 0..Ended - 1 /\ pc[p] + 1 <= Size(p) /\ pc[p] > 0
  <1>1. pc[p] \in Nat /\ pc[p] > 0 /\ pc[p] + 1 <= Size(p)
    BY GoesOn
  <1>2. Size(p) \in 1..Ended - 1 /\ Ended \in Nat
    BY Lengths, RoundsAssumption
  <1> QED
    BY <1>1, <1>2

\* A step leaves every variable in its type.
LEMMA TypeKept ==
  ASSUME IInv, [Next]_vars, ~refused'
  PROVE  TypeOK'
  <1>0. /\ TypeOK /\ InCode /\ Ended \in Nat
        /\ Ended' = Ended
    BY Lengths, RoundsAssumption DEF IInv, Ended
  <1>1. ASSUME NEW p \in Proc, NEW s \in Semaphore, PStep(p, s) PROVE TypeOK'
    <2>1. pc[p] + 1 \in 0..Ended
      BY <1>0, <1>1, AfterMove DEF PStep
    <2>2. pc' \in [Proc -> 0..Ended]
      BY <1>0, <1>1, <2>1 DEF PStep, Moves, TypeOK
    <2>3. sem' \in [Semaphore -> Int]
      BY <1>0, <1>1 DEF PStep, TypeOK
    <2>4. wait' \in [Proc -> Semaphore \cup {"clock", "nothing"}]
      BY <1>0, <1>1 DEF PStep, TypeOK
    <2> QED
      BY <1>0, <1>1, <2>2, <2>3, <2>4 DEF PStep, TypeOK
  <1>2. ASSUME NEW p \in Proc, NEW s \in Semaphore, VStep(p, s) PROVE TypeOK'
    <2>1. pc[p] + 1 \in 0..Ended
      BY <1>0, <1>2, AfterMove DEF VStep
    <2>2. pc' \in [Proc -> 0..Ended]
      BY <1>0, <1>2, <2>1 DEF VStep, Moves, TypeOK
    <2>3. sem' \in [Semaphore -> Int]
      BY <1>0, <1>2 DEF VStep, TypeOK
    <2>4. wait' \in [Proc -> Semaphore \cup {"clock", "nothing"}]
      BY <1>0, <1>2 DEF VStep, Wake, WakeOne, Waiting, TypeOK
    <2> QED
      BY <1>0, <1>2, <2>2, <2>3, <2>4 DEF VStep, TypeOK
  <1>3. ASSUME NEW p \in Proc, NEW c \in Proc, CreateStep(p, c) PROVE TypeOK'
    <2>1. pc[p] + 1 \in 0..Ended /\ 1 \in 0..Ended
      BY <1>0, <1>3, AfterMove, Lengths DEF CreateStep
    <2>2. pc' \in [Proc -> 0..Ended]
      BY <1>0, <1>3, <2>1 DEF CreateStep, TypeOK
    <2>3. parent' \in [Proc -> Proc \cup {NULL}]
      BY <1>0, <1>3 DEF CreateStep, TypeOK
    <2>4. pids' \in [{"p4", "child1", "intermediate"} -> Proc \cup {NULL}]
      BY <1>0, <1>3 DEF CreateStep, TypeOK
    <2> QED
      BY <1>0, <1>3, <2>2, <2>3, <2>4 DEF CreateStep, TypeOK
  <1>4. ASSUME NEW p \in Proc, QuietStep(p) PROVE TypeOK'
    <2>1. pc[p] + 1 \in 0..Ended
      BY <1>0, <1>4, AfterMove DEF QuietStep
    <2>2. pc' \in [Proc -> 0..Ended]
      BY <1>0, <1>4, <2>1 DEF QuietStep, Moves, TypeOK
    <2>3. wait' \in [Proc -> Semaphore \cup {"clock", "nothing"}]
      BY <1>0, <1>4 DEF QuietStep, TypeOK
    <2> QED
      BY <1>0, <1>4, <2>2, <2>3 DEF QuietStep, TypeOK
  <1>5. ASSUME NEW p \in Proc, EndStep(p) PROVE TypeOK'
    <2>1. pc' \in [Proc -> 0..Ended]
      BY <1>0, <1>5 DEF EndStep, TypeOK
    <2>3. parent' \in [Proc -> Proc \cup {NULL}]
      BY <1>0, <1>5 DEF EndStep, Adopt, TypeOK
    <2> QED
      BY <1>0, <1>5, <2>1, <2>3 DEF EndStep, TypeOK
  <1>6. ASSUME KillStep PROVE TypeOK'
    <2>0. 8 \in 0..Ended /\ Ended \in 0..Ended
      BY <1>0, Lengths
    <2>1. pc' \in [Proc -> 0..Ended]
      BY <1>0, <1>6, <2>0 DEF KillStep, TypeOK
    <2>3. parent' \in [Proc -> Proc \cup {NULL}]
      BY <1>0, <1>6, Names DEF KillStep, Adopt, TypeOK
    <2>4. sem' \in [Semaphore -> Int]
      BY <1>0, <1>6, Names DEF KillStep, GiveBack, TypeOK
    <2>5. wait' \in [Proc -> Semaphore \cup {"clock", "nothing"}]
      BY <1>0, <1>6, Names DEF KillStep, TypeOK
    <2> QED
      BY <1>0, <1>6, <2>1, <2>3, <2>4, <2>5 DEF KillStep, TypeOK
  <1>7. ASSUME Still PROVE TypeOK'
    <2>1. wait' \in [Proc -> Semaphore \cup {"clock", "nothing"}]
      BY <1>0, <1>7 DEF Still, TypeOK
    <2> QED
      BY <1>0, <1>7, <2>1 DEF Still, TypeOK
  <1> QED
    BY <1>1, <1>2, <1>3, <1>4, <1>5, <1>6, <1>7, AnyForm

\* Where somebody is created nothing else is done, and nobody else is created there;
\* everybody is created at one place.
LEMMA CreatePlaces ==
  ASSUME NEW p \in Proc, NEW i, NEW c \in Proc, CreateAt(p, i, c)
  PROVE  /\ i \in Nat /\ i > 0
         /\ \A s : ~PAt(p, i, s) /\ ~VAt(p, i, s)
         /\ ~QuietAt(p, i) /\ Role(p) # "p4b" /\ (Role(p) = "p4" => i # 7)
         /\ \A k : EndAt(p, k) => k \in Nat /\ k > i
         /\ p # c
  <1>1. /\ i \in Nat /\ i > 0
        /\ ~QuietAt(p, i) /\ Role(p) # "p4b" /\ (Role(p) = "p4" => i # 7)
    BY RoundsAssumption DEF CreateAt, QuietAt, Round
  <1>2. ASSUME NEW s PROVE ~PAt(p, i, s) /\ ~VAt(p, i, s)
    BY RoundsAssumption DEF CreateAt, PAt, VAt, Round, LeafRoles
  <1>3. ASSUME NEW k, EndAt(p, k) PROVE k \in Nat /\ k > i
    BY <1>3, RoundsAssumption DEF CreateAt, EndAt, Round, LeafRoles
  <1>4. p # c
    BY Names DEF CreateAt
  <1> QED
    BY <1>1, <1>2, <1>3, <1>4

\* A place creates one process, and a process is created at one place.
LEMMA OnePlace ==
  ASSUME NEW p \in Proc, NEW i, NEW c \in Proc, CreateAt(p, i, c)
  PROVE  /\ \A d \in Proc : CreateAt(p, i, d) => d = c
         /\ \A q \in Proc : \A j : CreateAt(q, j, c) => q = p /\ j = i
  <1>1. ASSUME NEW d \in Proc, CreateAt(p, i, d) PROVE d = c
    BY <1>1, RoundsAssumption DEF CreateAt, Round
  <1>2. ASSUME NEW q \in Proc, NEW j, CreateAt(q, j, c) PROVE q = p /\ j = i
    <2>1. /\ Role(c) = "p2" => Role(p) = "p1" /\ i = 3
          /\ Role(c) = "p3" => Role(p) = "p1" /\ i = 7
          /\ Role(c) = "p4" => Role(p) = "p1" /\ i = 9
          /\ Role(c) = "p5" => Role(p) = "p1" /\ i = 10
          /\ Role(c) = "p6" => Role(p) = "p1" /\ i = 11
          /\ Role(c) = "p7" => Role(p) = "p1" /\ i = 12
          /\ Role(c) = "p8root" => Role(p) = "p1" /\ i = 13 + 2 * Turn(c)
          /\ Role(c) = "p4b" => Role(p) = "p4" /\ i = 5
          /\ Role(c) = "child1" => Role(p) = "p8root" /\ i = 2 /\ Turn(c) = Turn(p)
          /\ Role(c) = "child2" => Role(p) = "p8root" /\ i = 3 /\ Turn(c) = Turn(p)
          /\ Role(c) = "intermediate" => Role(p) = "child1" /\ i = 2 /\ Turn(c) = Turn(p)
          /\ Role(c) = "curiousleaf" => Role(p) = "intermediate" /\ i = 1 /\ Turn(c) = Turn(p)
          /\ Role(c) = "leaf1" => Role(p) = "intermediate" /\ i = 2 /\ Turn(c) = Turn(p)
          /\ Role(c) = "leaf2" => Role(p) = "child2" /\ i = 1 /\ Turn(c) = Turn(p)
          /\ Role(c) = "leaf3" => Role(p) = "child2" /\ i = 2 /\ Turn(c) = Turn(p)
      BY Names DEF CreateAt
    <2>2. /\ Role(c) = "p2" => Role(q) = "p1" /\ j = 3
          /\ Role(c) = "p3" => Role(q) = "p1" /\ j = 7
          /\ Role(c) = "p4" => Role(q) = "p1" /\ j = 9
          /\ Role(c) = "p5" => Role(q) = "p1" /\ j = 10
          /\ Role(c) = "p6" => Role(q) = "p1" /\ j = 11
          /\ Role(c) = "p7" => Role(q) = "p1" /\ j = 12
          /\ Role(c) = "p8root" => Role(q) = "p1" /\ j = 13 + 2 * Turn(c)
          /\ Role(c) = "p4b" => Role(q) = "p4" /\ j = 5
          /\ Role(c) = "child1" => Role(q) = "p8root" /\ j = 2 /\ Turn(c) = Turn(q)
          /\ Role(c) = "child2" => Role(q) = "p8root" /\ j = 3 /\ Turn(c) = Turn(q)
          /\ Role(c) = "intermediate" => Role(q) = "child1" /\ j = 2 /\ Turn(c) = Turn(q)
          /\ Role(c) = "curiousleaf" => Role(q) = "intermediate" /\ j = 1 /\ Turn(c) = Turn(q)
          /\ Role(c) = "leaf1" => Role(q) = "intermediate" /\ j = 2 /\ Turn(c) = Turn(q)
          /\ Role(c) = "leaf2" => Role(q) = "child2" /\ j = 1 /\ Turn(c) = Turn(q)
          /\ Role(c) = "leaf3" => Role(q) = "child2" /\ j = 2 /\ Turn(c) = Turn(q)
      BY <1>2, Names DEF CreateAt
    <2>3. Role(c) # "p1"
      BY Names DEF CreateAt
    <2>4. Role(p) = Role(q) /\ i = j /\ (Role(p) \in P8Roles => Turn(p) = Turn(q))
          /\ Role(p) \in {"p1", "p4"} \cup P8Roles
      BY <2>1, <2>2, <2>3, Roles DEF OnceRoles, P8Roles
    <2> QED
      BY <2>4, Roles
  <1> QED
    BY <1>1, <1>2

\* Who is created has not lived yet.
LEMMA Newborn ==
  ASSUME TypeOK, Created, CreatedIn8, NEW p \in Proc, NEW c \in Proc, CreateAt(p, pc[p], c)
  PROVE  pc[c] = 0 /\ p # c
  <1>1. pc[c] \in 0..Ended /\ p # c
    BY CreatePlaces DEF TypeOK
  <1>2. CASE Role(p) \in {"p1", "p4"} /\ c \in {p2, p3, p4, p5, p6, p7, p4b}
    <2>1. ~(pc[c] > 0)
      BY <1>2, Roles, Names DEF CreateAt, Created
    <2> QED
      BY <1>1, <2>1
  <1>3. CASE Role(p) = "p1" /\ \E r \in Round : pc[p] = 13 + 2 * r /\ c = Member("p8root", r)
    <2>1. PICK r \in Round : pc[p] = 13 + 2 * r /\ c = Member("p8root", r)
      BY <1>3
    <2>2. ~Begun(r)
      BY <1>3, <2>1, Roles DEF Begun, Round
    <2>3. ~(pc[c] > 0)
      BY <2>1, <2>2 DEF CreatedIn8, CreatedIn, At
    <2> QED
      BY <1>1, <2>3
  <1>4. CASE Role(p) \in P8Roles
    <2>1. Turn(p) \in Round /\ p = Member(Role(p), Turn(p)) /\ CreatedIn(Turn(p))
      BY <1>4, Roles DEF CreatedIn8
    <2>2. ~(pc[c] > 0)
      BY <1>4, <2>1 DEF CreatedIn, CreateAt, At, P8Roles
    <2> QED
      BY <1>1, <2>2
  <1> QED
    BY <1>2, <1>3, <1>4, Names DEF CreateAt, P8Roles

\* c has been created when p is behind the place where p creates it.
LEMMA CreatedKept ==
  ASSUME IInv, [Next]_vars, ~refused', NEW p \in Proc, NEW i, NEW c \in Proc, CreateAt(p, i, c),
         pc[c] > 0 <=> pc[p] > i
  PROVE  pc'[c] > 0 <=> pc'[p] > i
  <1> USE DEF IInv
  <1>1. /\ i \in Nat /\ i > 0 /\ p # c /\ pc[p] \in 0..Ended /\ pc[c] \in 0..Ended
        /\ Ended \in Nat /\ Ended > 0
    BY CreatePlaces, Lengths DEF TypeOK
  <1>2. ASSUME NEW q \in Proc, Ready(q), Moves(q), pc[q] = i => q # p
        PROVE  pc'[c] > 0 <=> pc'[p] > i
    <2>1. pc[q] > 0
      BY <1>2 DEF Ready, Alive, TypeOK
    <2>2. /\ pc'[p] = IF q = p THEN pc[p] + 1 ELSE pc[p]
          /\ pc'[c] = IF q = c THEN pc[c] + 1 ELSE pc[c]
      BY <1>2 DEF Moves, TypeOK
    <2>3. pc'[p] > i <=> pc[p] > i
      BY <1>1, <1>2, <2>2
    <2>4. pc'[c] > 0 <=> pc[c] > 0
      BY <1>1, <2>1, <2>2
    <2> QED
      BY <2>3, <2>4
  <1>3. ASSUME NEW q \in Proc, NEW s \in Semaphore, PStep(q, s) \/ VStep(q, s)
        PROVE  pc'[c] > 0 <=> pc'[p] > i
    BY <1>2, <1>3, CreatePlaces DEF PStep, VStep
  <1>4. ASSUME NEW q \in Proc, QuietStep(q) PROVE pc'[c] > 0 <=> pc'[p] > i
    <2>1. CASE Moves(q)
      BY <1>2, <1>4, <2>1, CreatePlaces DEF QuietStep
    <2>2. CASE UNCHANGED pc
      BY <2>2
    <2> QED
      BY <1>4, <2>1, <2>2 DEF QuietStep
  <1>5. ASSUME NEW q \in Proc, NEW d \in Proc, CreateStep(q, d)
        PROVE  pc'[c] > 0 <=> pc'[p] > i
    <2>1. /\ Ready(q) /\ CreateAt(q, pc[q], d)
          /\ pc' = [pc EXCEPT ![q] = pc[q] + 1, ![d] = 1]
      BY <1>5 DEF CreateStep
    <2>2. pc[d] = 0 /\ q # d /\ pc[q] \in 1..Ended
      BY <2>1, Newborn DEF Ready, Alive, TypeOK
    <2>3. /\ pc'[q] = pc[q] + 1 /\ pc'[d] = 1
          /\ \A x \in Proc : x # q /\ x # d => pc'[x] = pc[x]
      BY <2>1, <2>2 DEF TypeOK
    <2>4. CASE d = c
      <3>1. q = p /\ pc[q] = i
        BY <2>1, <2>4, OnePlace
      <3> QED
        BY <1>1, <2>3, <2>4, <3>1
    <2>5. CASE d # c
      <3>1. ~(q = p /\ pc[q] = i)
        BY <2>1, <2>5, OnePlace
      <3>2. pc'[c] > 0 <=> pc[c] > 0
        BY <1>1, <2>2, <2>3, <2>5
      <3>3. pc'[p] > i <=> pc[p] > i
        BY <1>1, <2>2, <2>3, <3>1
      <3> QED
        BY <3>2, <3>3
    <2> QED
      BY <2>4, <2>5
  <1>6. ASSUME NEW q \in Proc, EndStep(q) PROVE pc'[c] > 0 <=> pc'[p] > i
    <2>1. Ready(q) /\ EndAt(q, pc[q]) /\ pc' = [pc EXCEPT ![q] = Ended]
      BY <1>6 DEF EndStep
    <2>2. pc[q] > 0 /\ pc[q] < Ended
      BY <2>1, <1>1 DEF Ready, Alive
    <2>3. pc'[q] = Ended /\ \A x \in Proc : x # q => pc'[x] = pc[x]
      BY <2>1 DEF TypeOK
    <2>4. q = p => pc[p] > i
      BY <2>1, CreatePlaces
    <2> QED
      BY <1>1, <2>2, <2>3, <2>4
  <1>7. ASSUME KillStep PROVE pc'[c] > 0 <=> pc'[p] > i
    <2>1. pc[p4] = 7 /\ pc[p4b] > 0 /\ pc' = [pc EXCEPT ![p4] = 8, ![p4b] = Ended]
      BY <1>7 DEF KillStep
    <2>2. /\ pc'[p4] = 8 /\ pc'[p4b] = Ended
          /\ \A x \in Proc : x # p4 /\ x # p4b => pc'[x] = pc[x]
      BY <2>1, Names DEF TypeOK
    <2>3. p # p4b /\ (p = p4 => i # 7)
      BY CreatePlaces, Names
    <2>4. pc'[p] > i <=> pc[p] > i
      <3>1. CASE p = p4
        BY <1>1, <2>1, <2>2, <2>3, <3>1
      <3>2. CASE p # p4
        <4>1. pc'[p] = pc[p]
          BY <2>2, <2>3, <3>2
        <4> QED
          BY <4>1
      <3> QED
        BY <3>1, <3>2
    <2>5. pc'[c] > 0 <=> pc[c] > 0
      <3>1. CASE c = p4
        BY <1>1, <2>1, <2>2, <3>1
      <3>2. CASE c = p4b
        BY <1>1, <2>1, <2>2, <3>2
      <3>3. CASE c # p4 /\ c # p4b
        <4>1. pc'[c] = pc[c]
          BY <2>2, <3>3
        <4> QED
          BY <4>1
      <3> QED
        BY <3>1, <3>2, <3>3
    <2> QED
      BY <2>4, <2>5
  <1>8. ASSUME Still PROVE pc'[c] > 0 <=> pc'[p] > i
    BY <1>8 DEF Still
  <1> QED
    BY <1>3, <1>4, <1>5, <1>6, <1>7, <1>8, AnyForm

\* Who has been created is still known from where its creator is.
LEMMA CreatedsKept ==
  ASSUME IInv, [Next]_vars, ~refused'
  PROVE  Created' /\ CreatedIn8'
  <1> USE DEF IInv
  <1>1. /\ CreateAt(p1, 3, p2) /\ CreateAt(p1, 7, p3) /\ CreateAt(p1, 9, p4)
        /\ CreateAt(p1, 10, p5) /\ CreateAt(p1, 11, p6) /\ CreateAt(p1, 12, p7)
        /\ CreateAt(p4, 5, p4b)
    BY Names DEF CreateAt
  <1>2. pc'[p1] > 0
    <2>1. ASSUME NEW p \in Proc, Moves(p) \/ pc' = [pc EXCEPT ![p] = Ended]
          PROVE  pc'[p1] > 0
      BY <2>1, Names, Lengths DEF Moves, TypeOK, Created
    <2>2. ASSUME NEW p \in Proc, NEW c \in Proc, CreateStep(p, c) PROVE pc'[p1] > 0
      BY <2>2, Names, Lengths DEF CreateStep, TypeOK, Created
    <2>3. ASSUME KillStep PROVE pc'[p1] > 0
      BY <2>3, Names, Lengths DEF KillStep, TypeOK, Created
    <2>4. ASSUME Still \/ UNCHANGED pc PROVE pc'[p1] > 0
      BY <2>4 DEF Still, Created
    <2> QED
      BY <2>1, <2>2, <2>3, <2>4, AnyForm DEF PStep, VStep, QuietStep, EndStep
  <1>3. /\ pc'[p2] > 0 <=> pc'[p1] > 3
        /\ pc'[p3] > 0 <=> pc'[p1] > 7
        /\ pc'[p4] > 0 <=> pc'[p1] > 9
        /\ pc'[p5] > 0 <=> pc'[p1] > 10
    BY <1>1, CreatedKept, Names DEF Created
  <1>4. /\ pc'[p6] > 0 <=> pc'[p1] > 11
        /\ pc'[p7] > 0 <=> pc'[p1] > 12
        /\ pc'[p4b] > 0 <=> pc'[p4] > 5
    BY <1>1, CreatedKept, Names DEF Created
  <1>5. ASSUME NEW r \in Round PROVE CreatedIn(r)'
    <2>1. /\ CreateAt(p1, 13 + 2 * r, Member("p8root", r))
          /\ CreateAt(Member("p8root", r), 2, Member("child1", r))
          /\ CreateAt(Member("p8root", r), 3, Member("child2", r))
          /\ CreateAt(Member("child1", r), 2, Member("intermediate", r))
          /\ CreateAt(Member("intermediate", r), 1, Member("curiousleaf", r))
          /\ CreateAt(Member("intermediate", r), 2, Member("leaf1", r))
          /\ CreateAt(Member("child2", r), 1, Member("leaf2", r))
          /\ CreateAt(Member("child2", r), 2, Member("leaf3", r))
      BY Names DEF CreateAt
    <2>2. /\ Member("p8root", r) \in Proc /\ Member("child1", r) \in Proc
          /\ Member("child2", r) \in Proc /\ Member("intermediate", r) \in Proc
          /\ Member("curiousleaf", r) \in Proc /\ Member("leaf1", r) \in Proc
          /\ Member("leaf2", r) \in Proc /\ Member("leaf3", r) \in Proc /\ p1 \in Proc
      BY Names DEF P8Roles
    <2>3. CreatedIn(r)
      BY DEF CreatedIn8
    <2>4. /\ pc'[Member("p8root", r)] > 0 <=> pc'[p1] > 13 + 2 * r
          /\ pc'[Member("child1", r)] > 0 <=> pc'[Member("p8root", r)] > 2
          /\ pc'[Member("child2", r)] > 0 <=> pc'[Member("p8root", r)] > 3
          /\ pc'[Member("intermediate", r)] > 0 <=> pc'[Member("child1", r)] > 2
      BY <2>1, <2>2, <2>3, CreatedKept DEF CreatedIn, At, Begun
    <2>5. /\ pc'[Member("curiousleaf", r)] > 0 <=> pc'[Member("intermediate", r)] > 1
          /\ pc'[Member("leaf1", r)] > 0 <=> pc'[Member("intermediate", r)] > 2
          /\ pc'[Member("leaf2", r)] > 0 <=> pc'[Member("child2", r)] > 1
          /\ pc'[Member("leaf3", r)] > 0 <=> pc'[Member("child2", r)] > 2
      BY <2>1, <2>2, <2>3, CreatedKept DEF CreatedIn, At
    <2> QED
      BY <2>4, <2>5 DEF CreatedIn, At, Begun
  <1> QED
    BY <1>2, <1>3, <1>4, <1>5 DEF Created, CreatedIn8

\* A place that has another one behind it.
Onward(q, i) ==
  \/ \E s \in Semaphore : PAt(q, i, s) \/ VAt(q, i, s)
  \/ \E c \in Proc : CreateAt(q, i, c)
  \/ QuietAt(q, i)
  \/ Role(q) = "p4" /\ i = 7

\* What a step may do to the place of a process.
LEMMA PcAfter ==
  ASSUME IInv, [Next]_vars, ~refused', NEW q \in Proc
  PROVE  \/ pc'[q] = pc[q]
         \/ /\ Ready(q) /\ Onward(q, pc[q]) /\ pc'[q] = pc[q] + 1
            /\ pc[q] > 0 /\ pc'[q] <= Size(q) /\ pc'[q] < Ended
         \/ Ready(q) /\ EndAt(q, pc[q]) /\ pc'[q] = Ended
         \/ q = p4b /\ pc[p4] = 7 /\ pc'[p4] = 8 /\ pc[p4b] \in {3, 4} /\ pc'[p4b] = Ended
         \/ pc[q] = 0 /\ pc'[q] = 1
  <1> USE DEF IInv
  <1>0. /\ pc \in [Proc -> 0..Ended] /\ Ended \in Nat /\ p4 \in Proc /\ p4b \in Proc
        /\ p4 # p4b
    BY Names, Lengths, RoundsAssumption DEF TypeOK
  <1> DEFINE Goes == /\ Ready(q) /\ Onward(q, pc[q]) /\ pc'[q] = pc[q] + 1
                     /\ pc[q] > 0 /\ pc'[q] <= Size(q) /\ pc'[q] < Ended
  <1>1. ASSUME NEW p \in Proc, Ready(p), Onward(p, pc[p]), pc'[p] = pc[p] + 1, q = p
        PROVE  Goes
    <2>1. pc[p] + 1 \in 0..Ended - 1 /\ pc[p] + 1 <= Size(p) /\ pc[p] > 0
      BY <1>1, AfterMove DEF Onward
    <2> QED
      BY <1>0, <1>1, <2>1
  <1> HIDE DEF Goes
  <1>2. ASSUME NEW p \in Proc, Ready(p), Onward(p, pc[p]), Moves(p)
        PROVE  pc'[q] = pc[q] \/ Goes
    <2>1. /\ pc'[p] = pc[p] + 1
          /\ q # p => pc'[q] = pc[q]
      BY <1>0, <1>2 DEF Moves
    <2> QED
      BY <1>1, <1>2, <2>1
  <1>3. ASSUME NEW p \in Proc, NEW s \in Semaphore, PStep(p, s) \/ VStep(p, s)
        PROVE  pc'[q] = pc[q] \/ Goes
    BY <1>2, <1>3 DEF PStep, VStep, Onward
  <1>4. ASSUME NEW p \in Proc, QuietStep(p) PROVE pc'[q] = pc[q] \/ Goes
    BY <1>2, <1>4 DEF QuietStep, Onward
  <1>5. ASSUME NEW p \in Proc, NEW c \in Proc, CreateStep(p, c)
        PROVE  pc'[q] = pc[q] \/ Goes \/ (pc[q] = 0 /\ pc'[q] = 1)
    <2>1. /\ Ready(p) /\ CreateAt(p, pc[p], c)
          /\ pc' = [pc EXCEPT ![p] = pc[p] + 1, ![c] = 1]
      BY <1>5 DEF CreateStep
    <2>2. pc[c] = 0 /\ p # c
      BY <2>1, Newborn
    <2>3. /\ pc'[p] = pc[p] + 1 /\ pc'[c] = 1
          /\ q # p /\ q # c => pc'[q] = pc[q]
      BY <1>0, <2>1, <2>2
    <2>4. Onward(p, pc[p])
      BY <2>1 DEF Onward
    <2> QED
      BY <1>1, <2>1, <2>2, <2>3, <2>4
  <1>6. ASSUME NEW p \in Proc, EndStep(p)
        PROVE  pc'[q] = pc[q] \/ (Ready(q) /\ EndAt(q, pc[q]) /\ pc'[q] = Ended)
    BY <1>0, <1>6 DEF EndStep
  <1>7. ASSUME KillStep
        PROVE  \/ pc'[q] = pc[q] \/ Goes
               \/ q = p4b /\ pc[p4] = 7 /\ pc'[p4] = 8 /\ pc[p4b] \in {3, 4} /\ pc'[p4b] = Ended
    <2>1. /\ Ready(p4) /\ pc[p4] = 7 /\ pc[p4b] \in {3, 4}
          /\ pc' = [pc EXCEPT ![p4] = 8, ![p4b] = Ended]
      BY <1>7 DEF KillStep
    <2>2. /\ pc'[p4] = 8 /\ pc'[p4b] = Ended
          /\ q # p4 /\ q # p4b => pc'[q] = pc[q]
      BY <1>0, <2>1
    <2>3. Onward(p4, pc[p4])
      BY <2>1, Names DEF Onward
    <2>4. pc[p4] + 1 = 8
      BY <2>1
    <2>5. q = p4 => Goes
      BY <1>0, <1>1, <2>1, <2>2, <2>3, <2>4
    <2> QED
      BY <2>1, <2>2, <2>5
  <1>8. ASSUME Still PROVE pc'[q] = pc[q]
    BY <1>8 DEF Still
  <1> QED
    BY <1>3, <1>4, <1>5, <1>6, <1>7, <1>8, AnyForm DEF Goes

\* Nobody gets behind its program, or to an error.
LEMMA InCodeKept ==
  ASSUME IInv, [Next]_vars, ~refused'
  PROVE  InCode'
  <1> USE DEF IInv
  <1>1. Ended' = Ended /\ Ended = 17 + 2 * Rounds /\ Rounds \in Nat
    BY Lengths, RoundsAssumption DEF Ended
  <1>2. ASSUME NEW q \in Proc, Alive(q)' PROVE pc'[q] <= Size(q)
    <2>1. pc'[q] \in 1..Ended - 1 /\ pc[q] \in 0..Ended /\ Size(q) \in 1..Ended - 1
      BY <1>1, <1>2, Lengths DEF Alive, TypeOK
    <2>2. CASE pc'[q] = pc[q]
      BY <2>1, <2>2 DEF InCode, Alive
    <2>3. CASE pc'[q] # pc[q]
      BY <1>1, <2>1, <2>3, PcAfter
    <2> QED
      BY <2>2, <2>3
  <1>3. /\ ~Onward(p1, 15 + 2 * Rounds) /\ ~Onward(p6, 1) /\ ~Onward(p7, 1)
    BY <1>1, Names DEF Onward, PAt, VAt, CreateAt, QuietAt, Round, LeafRoles
  <1>4. /\ pc[p1] \in 0..Ended /\ pc[p6] \in 0..Ended /\ pc[p7] \in 0..Ended
        /\ p1 # p4b /\ p6 # p4b /\ p7 # p4b
    BY Names DEF TypeOK
  <1>5. pc'[p1] # 16 + 2 * Rounds
    BY <1>1, <1>3, <1>4, PcAfter, Names DEF InCode
  <1>6. pc'[p6] # 2 /\ pc'[p7] # 2
    BY <1>1, <1>3, <1>4, PcAfter, Names DEF InCode
  <1> QED
    BY <1>2, <1>5, <1>6 DEF InCode

\* Who begins to wait for a semaphore does so in its P.
LEMMA WaitsForKept ==
  ASSUME IInv, [Next]_vars, ~refused'
  PROVE  WaitsFor'
  <1> USE DEF IInv
  <1>0. /\ Ended' = Ended /\ Ended \in Nat
        /\ pc \in [Proc -> 0..Ended]
        /\ wait \in [Proc -> Semaphore \cup {"clock", "nothing"}]
        /\ "nothing" \notin Semaphore /\ "clock" \notin Semaphore
    BY Lengths, RoundsAssumption, NoSemaphore DEF Ended, TypeOK
  <1> DEFINE Same(q) == pc'[q] = pc[q] /\ wait'[q] \in {wait[q], "nothing"}
             Fine(q) == /\ wait'[q] # "nothing" => Alive(q)'
                        /\ wait'[q] \in Semaphore => pc'[q] > 1 /\ PAt(q, pc'[q] - 1, wait'[q])
  <1>1. ASSUME NEW q \in Proc, Same(q) PROVE Fine(q)
    BY <1>0, <1>1 DEF WaitsFor, Alive
  <1>2. ASSUME NEW q, wait'[q] = "nothing" PROVE Fine(q)
    BY <1>0, <1>2
  <1>3. ASSUME NEW p \in Proc, NEW s \in Semaphore, PStep(p, s), NEW q \in Proc PROVE Fine(q)
    <2>1. /\ pc'[p] = pc[p] + 1
          /\ q # p => Same(q)
          /\ wait'[p] = s \/ wait'[p] = "nothing"
      BY <1>0, <1>3 DEF PStep, Moves, Ready
    <2>2. pc[p] + 1 \in 0..Ended - 1 /\ pc[p] > 0 /\ pc[p] \in Nat /\ PAt(p, pc[p], s)
      BY <1>0, <1>3, AfterMove DEF PStep
    <2>3. pc'[p] - 1 = pc[p]
      BY <2>1, <2>2
    <2>4. wait'[p] = s => Fine(p)
      BY <1>0, <2>1, <2>2, <2>3 DEF Alive
    <2> QED
      BY <1>1, <1>2, <2>1, <2>4
  <1>4. ASSUME NEW p \in Proc, NEW s \in Semaphore, VStep(p, s), NEW q \in Proc PROVE Fine(q)
    <2>1. \A x \in Proc : wait'[x] \in {wait[x], "nothing"}
      BY <1>0, <1>4 DEF VStep, Wake, WakeOne, Waiting
    <2>2. wait[p] = "nothing" /\ (q # p => pc'[q] = pc[q])
      BY <1>0, <1>4 DEF VStep, Ready, Moves
    <2> QED
      BY <1>1, <1>2, <2>1, <2>2
  <1>5. ASSUME NEW p \in Proc, NEW c \in Proc, CreateStep(p, c), NEW q \in Proc PROVE Fine(q)
    <2>1. pc[c] = 0 /\ wait' = wait /\ wait[p] = "nothing"
      BY <1>5, Newborn DEF CreateStep, Ready
    <2>2. wait[c] = "nothing"
      BY <2>1 DEF WaitsFor, Alive
    <2>3. q # p /\ q # c => pc'[q] = pc[q]
      BY <1>0, <1>5 DEF CreateStep
    <2> QED
      BY <1>1, <1>2, <2>1, <2>2, <2>3
  <1>6. ASSUME NEW p \in Proc, QuietStep(p), NEW q \in Proc PROVE Fine(q)
    <2>1. q # p => Same(q)
      BY <1>0, <1>6 DEF QuietStep, Moves
    <2>2. /\ wait'[p] \in {"nothing", "clock"}
          /\ pc'[p] \in {pc[p], pc[p] + 1}
      BY <1>0, <1>6 DEF QuietStep, Moves, Ready
    <2>3. pc[p] + 1 \in 0..Ended - 1 /\ pc[p] > 0 /\ pc[p] \in Nat
      BY <1>0, <1>6, AfterMove DEF QuietStep
    <2>4. pc'[p] \in 1..Ended - 1
      BY <1>0, <2>2, <2>3
    <2>5. Fine(p)
      BY <1>0, <2>2, <2>4 DEF Alive
    <2> QED
      BY <1>1, <2>1, <2>5
  <1>7. ASSUME NEW p \in Proc, EndStep(p), NEW q \in Proc PROVE Fine(q)
    <2>1. wait[p] = "nothing" /\ wait' = wait /\ (q # p => pc'[q] = pc[q])
      BY <1>0, <1>7 DEF EndStep, Ready
    <2> QED
      BY <1>1, <1>2, <2>1
  <1>8. ASSUME KillStep, NEW q \in Proc PROVE Fine(q)
    <2>1. /\ wait[p4] = "nothing" /\ wait' = [wait EXCEPT ![p4b] = "nothing"]
          /\ pc' = [pc EXCEPT ![p4] = 8, ![p4b] = Ended]
      BY <1>8 DEF KillStep, Ready, End
    <2>2. /\ q # p4 /\ q # p4b => pc'[q] = pc[q] /\ wait'[q] = wait[q]
          /\ wait'[p4b] = "nothing" /\ wait'[p4] = "nothing"
      BY <1>0, <2>1, Names
    <2> QED
      BY <1>1, <1>2, <2>2
  <1>9. ASSUME Still, NEW q \in Proc PROVE Fine(q)
    <2>1. pc' = pc /\ wait'[q] \in {wait[q], "nothing"}
      BY <1>0, <1>9 DEF Still
    <2> QED
      BY <1>1, <2>1
  <1>10. \A q \in Proc : Fine(q)
    BY <1>3, <1>4, <1>5, <1>6, <1>7, <1>8, <1>9, AnyForm
  <1> QED
    BY <1>10 DEF WaitsFor

\* A P below one adds a waiter, a V below zero wakes one, and a killed one is taken away.
LEMMA CountedKept ==
  ASSUME IInv, [Next]_vars, ~refused'
  PROVE  Counted'
  <1> USE DEF IInv
  <1>0. /\ wait \in [Proc -> Semaphore \cup {"clock", "nothing"}]
        /\ sem \in [Semaphore -> Int]
        /\ "nothing" \notin Semaphore /\ "clock" \notin Semaphore
    BY NoSemaphore DEF TypeOK
  <1> DEFINE After(t) == {q \in Proc : wait'[q] = t}
             Value(t) == IF sem'[t] < 0 THEN -sem'[t] ELSE 0
  <1>1. ASSUME NEW t \in Semaphore
        PROVE  /\ IsFiniteSet(Waiting(t)) /\ sem[t] \in Int
               /\ Cardinality(Waiting(t)) = IF sem[t] < 0 THEN -sem[t] ELSE 0
    BY <1>0, <1>1, Waiters DEF Counted
  <1>2. ASSUME NEW t \in Semaphore, After(t) = Waiting(t), sem'[t] = sem[t]
        PROVE  Cardinality(After(t)) = Value(t)
    BY <1>1, <1>2
  <1>3. ASSUME NEW p \in Proc, NEW s \in Semaphore, PStep(p, s), NEW t \in Semaphore
        PROVE  Cardinality(After(t)) = Value(t)
    <2>1. /\ wait[p] = "nothing" /\ sem' = [sem EXCEPT ![s] = sem[s] - 1]
          /\ wait' = IF sem[s] < 1 THEN [wait EXCEPT ![p] = s] ELSE wait
      BY <1>3 DEF PStep, Ready
    <2>2. CASE t # s
      <3>1. After(t) = Waiting(t) /\ sem'[t] = sem[t]
        BY <1>0, <2>1, <2>2 DEF Waiting
      <3> QED
        BY <3>1, <1>2
    <2>3. CASE t = s /\ sem[s] < 1
      <3>1. After(t) = Waiting(t) \cup {p} /\ p \notin Waiting(t)
        BY <1>0, <2>1, <2>3 DEF Waiting
      <3>2. sem'[t] = sem[t] - 1
        BY <1>0, <2>1, <2>3
      <3>3. Cardinality(Waiting(t) \cup {p}) = Cardinality(Waiting(t)) + 1
        BY <1>1, <3>1, FS_AddElement
      <3>4. Cardinality(Waiting(t)) = -sem[t]
        BY <1>1, <2>3
      <3>5. Value(t) = -sem[t] + 1
        BY <1>1, <2>3, <3>2
      <3> QED
        BY <3>1, <3>3, <3>4, <3>5
    <2>4. CASE t = s /\ ~(sem[s] < 1)
      <3>1. After(t) = Waiting(t)
        BY <2>1, <2>4 DEF Waiting
      <3>2. sem'[t] = sem[t] - 1
        BY <1>0, <2>1, <2>4
      <3>3. Cardinality(Waiting(t)) = 0 /\ Value(t) = 0
        BY <1>1, <2>4, <3>2
      <3> QED
        BY <3>1, <3>3
    <2> QED
      BY <2>2, <2>3, <2>4
  <1>4. ASSUME NEW p \in Proc, NEW s \in Semaphore, VStep(p, s), NEW t \in Semaphore
        PROVE  Cardinality(After(t)) = Value(t)
    <2>1. sem' = [sem EXCEPT ![s] = sem[s] + 1] /\ Wake(s)
      BY <1>4 DEF VStep
    <2>2. CASE sem[s] < 0
      <3>1. Waiting(s) # {}
        BY <1>1, <2>2, FS_EmptySet
      <3>2. PICK q \in Waiting(s) : wait' = [wait EXCEPT ![q] = "nothing"]
        BY <2>1, <2>2, <3>1 DEF Wake, WakeOne
      <3>3. q \in Proc /\ wait[q] = s
        BY <3>2 DEF Waiting
      <3>4. CASE t # s
        <4>1. After(t) = Waiting(t) /\ sem'[t] = sem[t]
          BY <1>0, <2>1, <3>2, <3>3, <3>4 DEF Waiting
        <4> QED
          BY <4>1, <1>2
      <3>5. CASE t = s
        <4>1. After(t) = Waiting(t) \ {q} /\ q \in Waiting(t)
          BY <1>0, <3>2, <3>3, <3>5 DEF Waiting
        <4>2. sem'[t] = sem[t] + 1
          BY <1>0, <2>1, <3>5
        <4>3. Cardinality(Waiting(t) \ {q}) = Cardinality(Waiting(t)) - 1
          BY <1>1, <4>1, FS_RemoveElement
        <4>4. Cardinality(Waiting(t)) = -sem[t]
          BY <1>1, <2>2, <3>5
        <4>5. Value(t) = -sem[t] - 1
          BY <1>1, <2>2, <3>5, <4>2
        <4> QED
          BY <4>1, <4>3, <4>4, <4>5
      <3> QED
        BY <3>4, <3>5
    <2>3. CASE ~(sem[s] < 0)
      <3>1. wait' = wait
        BY <2>1, <2>3 DEF Wake
      <3>2. After(t) = Waiting(t)
        BY <3>1 DEF Waiting
      <3>3. sem'[t] = sem[t] \/ (t = s /\ sem'[t] = sem[t] + 1)
        BY <1>0, <2>1
      <3>4. Value(t) = IF sem[t] < 0 THEN -sem[t] ELSE 0
        BY <1>1, <2>3, <3>3
      <3> QED
        BY <1>1, <3>2, <3>4
    <2> QED
      BY <2>2, <2>3
  <1>5. ASSUME sem' = sem, \A q \in Proc : \/ wait'[q] = wait[q]
                                           \/ {wait[q], wait'[q]} \subseteq {"nothing", "clock"},
               NEW t \in Semaphore
        PROVE  Cardinality(After(t)) = Value(t)
    <2>1. After(t) = Waiting(t)
      BY <1>0, <1>5 DEF Waiting
    <2> QED
      BY <1>2, <1>5, <2>1
  <1>6. ASSUME NEW p \in Proc, (\E c \in Proc : CreateStep(p, c)) \/ EndStep(p),
               NEW t \in Semaphore
        PROVE  Cardinality(After(t)) = Value(t)
    BY <1>5, <1>6 DEF CreateStep, EndStep
  <1>7. ASSUME NEW p \in Proc, QuietStep(p), NEW t \in Semaphore
        PROVE  Cardinality(After(t)) = Value(t)
    <2>1. wait[p] = "nothing" /\ sem' = sem
          /\ (wait' = wait \/ wait' = [wait EXCEPT ![p] = "clock"])
      BY <1>7 DEF QuietStep, Ready
    <2>2. \A q \in Proc : \/ wait'[q] = wait[q]
                          \/ {wait[q], wait'[q]} \subseteq {"nothing", "clock"}
      BY <1>0, <2>1
    <2> QED
      BY <1>5, <2>1, <2>2
  <1>8. ASSUME KillStep, NEW t \in Semaphore
        PROVE  Cardinality(After(t)) = Value(t)
    <2>1. /\ wait' = [wait EXCEPT ![p4b] = "nothing"]
          /\ sem' = IF wait[p4b] \in Semaphore
                    THEN [sem EXCEPT ![wait[p4b]] = sem[wait[p4b]] + 1] ELSE sem
      BY <1>8 DEF KillStep, GiveBack
    <2>2. CASE wait[p4b] # t
      <3>1. After(t) = Waiting(t) /\ sem'[t] = sem[t]
        BY <1>0, <2>1, <2>2, Names DEF Waiting
      <3> QED
        BY <3>1, <1>2
    <2>3. CASE wait[p4b] = t
      <3>1. After(t) = Waiting(t) \ {p4b} /\ p4b \in Waiting(t)
        BY <1>0, <2>1, <2>3, Names DEF Waiting
      <3>2. sem'[t] = sem[t] + 1
        BY <1>0, <2>1, <2>3
      <3>3. sem[t] < 0
        BY <2>3, Names, Waiters
      <3>4. Cardinality(Waiting(t) \ {p4b}) = Cardinality(Waiting(t)) - 1
        BY <1>1, <3>1, FS_RemoveElement
      <3>5. Cardinality(Waiting(t)) = -sem[t] /\ Value(t) = -sem[t] - 1
        BY <1>1, <3>2, <3>3
      <3> QED
        BY <3>1, <3>4, <3>5
    <2> QED
      BY <2>2, <2>3
  <1>9. ASSUME Still, NEW t \in Semaphore PROVE Cardinality(After(t)) = Value(t)
    <2>1. sem' = sem
      BY <1>9 DEF Still
    <2>2. \A q \in Proc : \/ wait'[q] = wait[q]
                          \/ {wait[q], wait'[q]} \subseteq {"nothing", "clock"}
      BY <1>9 DEF Still
    <2> QED
      BY <1>5, <2>1, <2>2
  <1>10. \A t \in Semaphore : Cardinality(After(t)) = Value(t)
    BY <1>3, <1>4, <1>6, <1>7, <1>8, <1>9, AnyForm
  <1> QED
    BY <1>10 DEF Counted, Waiting

\* Who gets behind place k when p moves.
LEMMA Threshold ==
  ASSUME TypeOK, NEW p \in Proc, Moves(p)
  PROVE  \A x \in Proc, k \in Nat :
           /\ pc'[x] > k <=> (pc[x] > k \/ (x = p /\ pc[p] = k))
           /\ x # p => pc'[x] = pc[x]
           /\ pc'[p] = pc[p] + 1
  <1>1. pc[p] \in Nat /\ pc'[p] = pc[p] + 1 /\ \A x \in Proc : x # p => pc'[x] = pc[x]
    BY Lengths DEF Moves, TypeOK
  <1> QED
    BY <1>1

\* The places the values of the semaphores are counted from.
Counts(x) ==
  IF x = p1 THEN {1, 4, 5, 8, 13, 14}
  ELSE IF x = p2 THEN {1, 2, 3, 7}
  ELSE IF x = p3 THEN {4}
  ELSE IF x = p4 THEN {2, 3, 4, 6, 8}
  ELSE IF x = p4b THEN {2}
  ELSE IF x = p5 THEN {7, 9, 10}
  ELSE {}

\* At none of them is anybody created, does anybody end or does something quiet.
LEMMA NotCounted ==
  ASSUME NEW p \in Proc, NEW i,
         QuietAt(p, i) \/ EndAt(p, i) \/ (Role(p) = "p4" /\ i = 7) \/ \E c : CreateAt(p, i, c)
  PROVE  i \notin Counts(p) /\ ~(p = p4b /\ i = 3)
  <1>1. i \notin Counts(p)
    <2>1. CASE p \in {p1, p2, p3}
      BY <2>1, Names, RoundsAssumption
      DEF Counts, QuietAt, EndAt, CreateAt, Round, LeafRoles
    <2>2. CASE p \in {p4, p4b, p5}
      BY <2>2, Names, RoundsAssumption
      DEF Counts, QuietAt, EndAt, CreateAt, Round, LeafRoles
    <2>3. CASE p \notin {p1, p2, p3, p4, p4b, p5}
      BY <2>3 DEF Counts
    <2> QED
      BY <2>1, <2>2, <2>3
  <1>2. ~(p = p4b /\ i = 3)
    BY Names DEF QuietAt, EndAt, CreateAt, LeafRoles
  <1> QED
    BY <1>1, <1>2

\* What is the same before and after when nobody passes such a place.
SameCounts ==
  /\ \A x \in {p1, p2, p3, p4, p4b, p5} : \A k \in Counts(x) : pc'[x] > k <=> pc[x] > k
  /\ pc'[p4b] = 4 <=> pc[p4b] = 4

\* The values stay when no place they are counted from is passed.
LEMMA SameValues ==
  ASSUME SameCounts, Values,
         \A s \in Semaphore \ {"endp8", "endcreate", "blkp8"} : sem'[s] = sem[s]
  PROVE  Values'
  <1>0. p1 # p2 /\ p1 # p3 /\ p1 # p4 /\ p1 # p4b /\ p1 # p5 /\ p2 # p3 /\ p2 # p4
        /\ p2 # p4b /\ p2 # p5 /\ p3 # p4 /\ p3 # p4b /\ p3 # p5 /\ p4 # p4b /\ p4 # p5
        /\ p4b # p5
    BY Names
  <1>1. /\ Counts(p1) = {1, 4, 5, 8, 13, 14} /\ Counts(p2) = {1, 2, 3, 7}
        /\ Counts(p3) = {4} /\ Counts(p4) = {2, 3, 4, 6, 8} /\ Counts(p4b) = {2}
        /\ Counts(p5) = {7, 9, 10}
    BY <1>0 DEF Counts
  <1>2. /\ pc'[p1] > 1 <=> pc[p1] > 1
        /\ pc'[p1] > 4 <=> pc[p1] > 4
        /\ pc'[p1] > 5 <=> pc[p1] > 5
        /\ pc'[p1] > 8 <=> pc[p1] > 8
        /\ pc'[p1] > 13 <=> pc[p1] > 13
        /\ pc'[p1] > 14 <=> pc[p1] > 14
    BY <1>1 DEF SameCounts
  <1>3. /\ pc'[p2] > 1 <=> pc[p2] > 1
        /\ pc'[p2] > 2 <=> pc[p2] > 2
        /\ pc'[p2] > 3 <=> pc[p2] > 3
        /\ pc'[p2] > 7 <=> pc[p2] > 7
        /\ pc'[p3] > 4 <=> pc[p3] > 4
    BY <1>1 DEF SameCounts
  <1>4. /\ pc'[p4] > 2 <=> pc[p4] > 2
        /\ pc'[p4] > 3 <=> pc[p4] > 3
        /\ pc'[p4] > 4 <=> pc[p4] > 4
        /\ pc'[p4] > 6 <=> pc[p4] > 6
        /\ pc'[p4] > 8 <=> pc[p4] > 8
    BY <1>1 DEF SameCounts
  <1>5. /\ pc'[p4b] > 2 <=> pc[p4b] > 2
        /\ pc'[p4b] = 4 <=> pc[p4b] = 4
        /\ pc'[p5] > 7 <=> pc[p5] > 7
        /\ pc'[p5] > 9 <=> pc[p5] > 9
        /\ pc'[p5] > 10 <=> pc[p5] > 10
    BY <1>1 DEF SameCounts
  <1>6. /\ sem'["testsem"] = sem["testsem"] /\ sem'["startp2"] = sem["startp2"]
        /\ sem'["s"] = sem["s"] /\ sem'["endp2"] = sem["endp2"] /\ sem'["endp3"] = sem["endp3"]
        /\ sem'["synp4"] = sem["synp4"] /\ sem'["blkp4"] = sem["blkp4"]
        /\ sem'["endp4"] = sem["endp4"] /\ sem'["endp5"] = sem["endp5"]
    BY DEF Semaphore
  <1> QED
    BY <1>2, <1>3, <1>4, <1>5, <1>6 DEF Values, N

\* A P takes one from the value of its semaphore, and passes the place that is counted.
LEMMA PValues ==
  ASSUME IInv, NEW p \in Proc, NEW s \in Semaphore, PStep(p, s)
  PROVE  Values'
  <1> USE DEF IInv
  <1>1. /\ PAt(p, pc[p], s) /\ Moves(p)
        /\ sem' = [sem EXCEPT ![s] = sem[s] - 1]
        /\ sem \in [Semaphore -> Int]
    BY DEF PStep, TypeOK
  <1>2. /\ sem'["testsem"] = IF s = "testsem" THEN sem["testsem"] - 1 ELSE sem["testsem"]
        /\ sem'["startp2"] = IF s = "startp2" THEN sem["startp2"] - 1 ELSE sem["startp2"]
        /\ sem'["s"] = IF s = "s" THEN sem["s"] - 1 ELSE sem["s"]
        /\ sem'["endp2"] = IF s = "endp2" THEN sem["endp2"] - 1 ELSE sem["endp2"]
        /\ sem'["endp3"] = IF s = "endp3" THEN sem["endp3"] - 1 ELSE sem["endp3"]
        /\ sem'["synp4"] = IF s = "synp4" THEN sem["synp4"] - 1 ELSE sem["synp4"]
        /\ sem'["blkp4"] = IF s = "blkp4" THEN sem["blkp4"] - 1 ELSE sem["blkp4"]
        /\ sem'["endp4"] = IF s = "endp4" THEN sem["endp4"] - 1 ELSE sem["endp4"]
        /\ sem'["endp5"] = IF s = "endp5" THEN sem["endp5"] - 1 ELSE sem["endp5"]
    BY <1>1 DEF Semaphore
  <1>3. sem["testsem"] \in Int /\ sem["startp2"] \in Int /\ sem["s"] \in Int
        /\ sem["endp2"] \in Int /\ sem["endp3"] \in Int /\ sem["synp4"] \in Int
        /\ sem["blkp4"] \in Int /\ sem["endp4"] \in Int /\ sem["endp5"] \in Int
    BY <1>1 DEF Semaphore
  <1>4. /\ s = "startp2" => p = p2 /\ pc[p] = 1
        /\ s = "s" => p = p2 /\ pc[p] = 3
        /\ s = "endp2" => p = p1 /\ pc[p] = 5
        /\ s = "endp3" => p = p1 /\ pc[p] = 8
        /\ s = "synp4" => (p = p4 /\ pc[p] = 4) \/ (p = p4 /\ pc[p] = 6)
        /\ s = "blkp4" => \/ p = p4 /\ pc[p] = 3
                          \/ p = p4b /\ pc[p] = 3
                          \/ p = p1 /\ pc[p] = 14
        /\ s = "endp4" => p = p5 /\ pc[p] = 7
        /\ s = "endp5" => p = p1 /\ pc[p] = 13
    BY <1>1, WhoPs
  <1>5. /\ p = p2 /\ pc[p] = 1 => s = "startp2"
        /\ p = p2 /\ pc[p] = 3 => s = "s"
        /\ p = p1 /\ pc[p] = 5 => s = "endp2"
        /\ p = p1 /\ pc[p] = 8 => s = "endp3"
        /\ p = p4 /\ pc[p] = 4 => s = "synp4"
    BY <1>1, Names, RoundsAssumption DEF PAt, Round, LeafRoles
  <1>6. /\ p = p4 /\ pc[p] = 6 => s = "synp4"
        /\ p = p4 /\ pc[p] = 3 => s = "blkp4"
        /\ p = p4b /\ pc[p] = 3 => s = "blkp4"
        /\ p = p1 /\ pc[p] = 14 => s = "blkp4"
        /\ p = p5 /\ pc[p] = 7 => s = "endp4"
        /\ p = p1 /\ pc[p] = 13 => s = "endp5"
    BY <1>1, Names, RoundsAssumption DEF PAt, Round, LeafRoles
  <1>7. /\ ~(p = p1 /\ pc[p] = 1) /\ ~(p = p1 /\ pc[p] = 4) /\ ~(p = p2 /\ pc[p] = 2)
        /\ ~(p = p2 /\ pc[p] = 7) /\ ~(p = p3 /\ pc[p] = 4) /\ ~(p = p4 /\ pc[p] = 2)
        /\ ~(p = p4b /\ pc[p] = 2) /\ ~(p = p5 /\ pc[p] = 9) /\ ~(p = p4 /\ pc[p] = 8)
        /\ ~(p = p5 /\ pc[p] = 10) /\ ~(p = p4b /\ pc[p] = 4) /\ s # "testsem"
    BY <1>1, Names, RoundsAssumption DEF PAt, Round, LeafRoles
  <1>8. \A x \in Proc, k \in Nat : pc'[x] > k <=> (pc[x] > k \/ (x = p /\ pc[p] = k))
    BY <1>1, Threshold
  <1>9. /\ (pc'[p1] > 1 <=> pc[p1] > 1) /\ (pc'[p1] > 4 <=> pc[p1] > 4)
        /\ (pc'[p2] > 2 <=> pc[p2] > 2) /\ (pc'[p2] > 7 <=> pc[p2] > 7)
        /\ (pc'[p3] > 4 <=> pc[p3] > 4) /\ (pc'[p4] > 2 <=> pc[p4] > 2)
        /\ (pc'[p4b] > 2 <=> pc[p4b] > 2) /\ (pc'[p5] > 9 <=> pc[p5] > 9)
        /\ (pc'[p4] > 8 <=> pc[p4] > 8) /\ (pc'[p5] > 10 <=> pc[p5] > 10)
    BY <1>7, <1>8, Names
  <1>10. /\ (pc'[p2] > 1 <=> (pc[p2] > 1 \/ (p = p2 /\ pc[p] = 1)))
         /\ (pc'[p2] > 3 <=> (pc[p2] > 3 \/ (p = p2 /\ pc[p] = 3)))
         /\ (pc'[p1] > 5 <=> (pc[p1] > 5 \/ (p = p1 /\ pc[p] = 5)))
         /\ (pc'[p1] > 8 <=> (pc[p1] > 8 \/ (p = p1 /\ pc[p] = 8)))
         /\ (pc'[p4] > 4 <=> (pc[p4] > 4 \/ (p = p4 /\ pc[p] = 4)))
         /\ (pc'[p4] > 6 <=> (pc[p4] > 6 \/ (p = p4 /\ pc[p] = 6)))
         /\ (pc'[p4] > 3 <=> (pc[p4] > 3 \/ (p = p4 /\ pc[p] = 3)))
         /\ (pc'[p1] > 14 <=> (pc[p1] > 14 \/ (p = p1 /\ pc[p] = 14)))
         /\ (pc'[p5] > 7 <=> (pc[p5] > 7 \/ (p = p5 /\ pc[p] = 7)))
         /\ (pc'[p1] > 13 <=> (pc[p1] > 13 \/ (p = p1 /\ pc[p] = 13)))
    BY <1>8, Names
  <1>11. pc'[p4b] = 4 <=> (pc[p4b] = 4 \/ (p = p4b /\ pc[p] = 3))
    BY <1>1, <1>7, Threshold, Names DEF TypeOK
  <1>12. p1 # p4 /\ p1 # p4b /\ p4 # p4b
    BY Names
  <1>13. sem'["testsem"] = N(pc'[p1] > 1)
    BY <1>2, <1>3, <1>4, <1>5, <1>6, <1>7, <1>9, <1>10, <1>11, <1>12 DEF Values, N
  <1>14. sem'["startp2"] = N(pc'[p1] > 4) - N(pc'[p2] > 1)
    BY <1>2, <1>3, <1>4, <1>5, <1>6, <1>7, <1>9, <1>10, <1>11, <1>12 DEF Values, N
  <1>15. sem'["s"] = N(pc'[p2] > 2) - N(pc'[p2] > 3)
    BY <1>2, <1>3, <1>4, <1>5, <1>6, <1>7, <1>9, <1>10, <1>11, <1>12 DEF Values, N
  <1>16. sem'["endp2"] = N(pc'[p2] > 7) - N(pc'[p1] > 5)
    BY <1>2, <1>3, <1>4, <1>5, <1>6, <1>7, <1>9, <1>10, <1>11, <1>12 DEF Values, N
  <1>17. sem'["endp3"] = N(pc'[p3] > 4) - N(pc'[p1] > 8)
    BY <1>2, <1>3, <1>4, <1>5, <1>6, <1>7, <1>9, <1>10, <1>11, <1>12 DEF Values, N
  <1>18. sem'["synp4"] = N(pc'[p4] > 2) + N(pc'[p4b] > 2) - N(pc'[p4] > 4) - N(pc'[p4] > 6)
    BY <1>2, <1>3, <1>4, <1>5, <1>6, <1>7, <1>9, <1>10, <1>11, <1>12 DEF Values, N
  <1>19. sem'["blkp4"] = 1 + N(pc'[p5] > 9) - N(pc'[p4] > 3) - N(pc'[p4b] = 4) - N(pc'[p1] > 14)
    BY <1>2, <1>3, <1>4, <1>5, <1>6, <1>7, <1>9, <1>10, <1>11, <1>12 DEF Values, N
  <1>20. sem'["endp4"] = N(pc'[p4] > 8) - N(pc'[p5] > 7)
    BY <1>2, <1>3, <1>4, <1>5, <1>6, <1>7, <1>9, <1>10, <1>11, <1>12 DEF Values, N
  <1>21. sem'["endp5"] = N(pc'[p5] > 10) - N(pc'[p1] > 13)
    BY <1>2, <1>3, <1>4, <1>5, <1>6, <1>7, <1>9, <1>10, <1>11, <1>12 DEF Values, N
  <1> QED
    BY <1>13, <1>14, <1>15, <1>16, <1>17, <1>18, <1>19, <1>20, <1>21 DEF Values

\* A V adds one, and passes the place that is counted.
LEMMA VValues ==
  ASSUME IInv, NEW p \in Proc, NEW s \in Semaphore, VStep(p, s)
  PROVE  Values'
  <1> USE DEF IInv
  <1>1. /\ VAt(p, pc[p], s) /\ Moves(p)
        /\ sem' = [sem EXCEPT ![s] = sem[s] + 1]
        /\ sem \in [Semaphore -> Int]
    BY DEF VStep, TypeOK
  <1>2. /\ sem'["testsem"] = IF s = "testsem" THEN sem["testsem"] + 1 ELSE sem["testsem"]
        /\ sem'["startp2"] = IF s = "startp2" THEN sem["startp2"] + 1 ELSE sem["startp2"]
        /\ sem'["s"] = IF s = "s" THEN sem["s"] + 1 ELSE sem["s"]
        /\ sem'["endp2"] = IF s = "endp2" THEN sem["endp2"] + 1 ELSE sem["endp2"]
        /\ sem'["endp3"] = IF s = "endp3" THEN sem["endp3"] + 1 ELSE sem["endp3"]
        /\ sem'["synp4"] = IF s = "synp4" THEN sem["synp4"] + 1 ELSE sem["synp4"]
        /\ sem'["blkp4"] = IF s = "blkp4" THEN sem["blkp4"] + 1 ELSE sem["blkp4"]
        /\ sem'["endp4"] = IF s = "endp4" THEN sem["endp4"] + 1 ELSE sem["endp4"]
        /\ sem'["endp5"] = IF s = "endp5" THEN sem["endp5"] + 1 ELSE sem["endp5"]
    BY <1>1 DEF Semaphore
  <1>3. sem["testsem"] \in Int /\ sem["startp2"] \in Int /\ sem["s"] \in Int
        /\ sem["endp2"] \in Int /\ sem["endp3"] \in Int /\ sem["synp4"] \in Int
        /\ sem["blkp4"] \in Int /\ sem["endp4"] \in Int /\ sem["endp5"] \in Int
    BY <1>1 DEF Semaphore
  <1>4. /\ s = "testsem" => p = p1 /\ pc[p] = 1
        /\ s = "startp2" => p = p1 /\ pc[p] = 4
        /\ s = "s" => p = p2 /\ pc[p] = 2
        /\ s = "endp2" => p = p2 /\ pc[p] = 7
        /\ s = "endp3" => p = p3 /\ pc[p] = 4
        /\ s = "synp4" => (p = p4 /\ pc[p] = 2) \/ (p = p4b /\ pc[p] = 2)
        /\ s = "blkp4" => p = p5 /\ pc[p] = 9
        /\ s = "endp4" => p = p4 /\ pc[p] = 8
        /\ s = "endp5" => p = p5 /\ pc[p] = 10
    BY <1>1, Roles DEF VAt
  <1>5. /\ p = p1 /\ pc[p] = 1 => s = "testsem"
        /\ p = p1 /\ pc[p] = 4 => s = "startp2"
        /\ p = p2 /\ pc[p] = 2 => s = "s"
        /\ p = p2 /\ pc[p] = 7 => s = "endp2"
        /\ p = p3 /\ pc[p] = 4 => s = "endp3"
    BY <1>1, Names DEF VAt, LeafRoles
  <1>6. /\ p = p4 /\ pc[p] = 2 => s = "synp4"
        /\ p = p4b /\ pc[p] = 2 => s = "synp4"
        /\ p = p5 /\ pc[p] = 9 => s = "blkp4"
        /\ p = p4 /\ pc[p] = 8 => s = "endp4"
        /\ p = p5 /\ pc[p] = 10 => s = "endp5"
    BY <1>1, Names DEF VAt, LeafRoles
  <1>7. /\ ~(p = p2 /\ pc[p] = 1) /\ ~(p = p2 /\ pc[p] = 3) /\ ~(p = p1 /\ pc[p] = 5)
        /\ ~(p = p1 /\ pc[p] = 8) /\ ~(p = p4 /\ pc[p] = 4) /\ ~(p = p4 /\ pc[p] = 6)
        /\ ~(p = p4 /\ pc[p] = 3) /\ ~(p = p4b /\ pc[p] = 3) /\ ~(p = p1 /\ pc[p] = 14)
        /\ ~(p = p5 /\ pc[p] = 7) /\ ~(p = p1 /\ pc[p] = 13) /\ ~(p = p4b /\ pc[p] = 4)
    BY <1>1, Names DEF VAt, LeafRoles
  <1>8. \A x \in Proc, k \in Nat : pc'[x] > k <=> (pc[x] > k \/ (x = p /\ pc[p] = k))
    BY <1>1, Threshold
  <1>9. /\ (pc'[p2] > 1 <=> pc[p2] > 1) /\ (pc'[p2] > 3 <=> pc[p2] > 3)
        /\ (pc'[p1] > 5 <=> pc[p1] > 5) /\ (pc'[p1] > 8 <=> pc[p1] > 8)
        /\ (pc'[p4] > 4 <=> pc[p4] > 4) /\ (pc'[p4] > 6 <=> pc[p4] > 6)
        /\ (pc'[p4] > 3 <=> pc[p4] > 3) /\ (pc'[p1] > 14 <=> pc[p1] > 14)
        /\ (pc'[p5] > 7 <=> pc[p5] > 7) /\ (pc'[p1] > 13 <=> pc[p1] > 13)
    BY <1>7, <1>8, Names
  <1>10. /\ (pc'[p1] > 1 <=> (pc[p1] > 1 \/ (p = p1 /\ pc[p] = 1)))
         /\ (pc'[p1] > 4 <=> (pc[p1] > 4 \/ (p = p1 /\ pc[p] = 4)))
         /\ (pc'[p2] > 2 <=> (pc[p2] > 2 \/ (p = p2 /\ pc[p] = 2)))
         /\ (pc'[p2] > 7 <=> (pc[p2] > 7 \/ (p = p2 /\ pc[p] = 7)))
         /\ (pc'[p3] > 4 <=> (pc[p3] > 4 \/ (p = p3 /\ pc[p] = 4)))
         /\ (pc'[p4] > 2 <=> (pc[p4] > 2 \/ (p = p4 /\ pc[p] = 2)))
         /\ (pc'[p4b] > 2 <=> (pc[p4b] > 2 \/ (p = p4b /\ pc[p] = 2)))
         /\ (pc'[p5] > 9 <=> (pc[p5] > 9 \/ (p = p5 /\ pc[p] = 9)))
         /\ (pc'[p4] > 8 <=> (pc[p4] > 8 \/ (p = p4 /\ pc[p] = 8)))
         /\ (pc'[p5] > 10 <=> (pc[p5] > 10 \/ (p = p5 /\ pc[p] = 10)))
    BY <1>8, Names
  <1>11. pc'[p4b] = 4 <=> pc[p4b] = 4
    BY <1>1, <1>7, Threshold, Names DEF TypeOK
  <1>12. p1 # p4 /\ p1 # p4b /\ p4 # p4b
    BY Names
  <1>13. sem'["testsem"] = N(pc'[p1] > 1)
    BY <1>2, <1>3, <1>4, <1>5, <1>6, <1>7, <1>9, <1>10, <1>11, <1>12 DEF Values, N
  <1>14. sem'["startp2"] = N(pc'[p1] > 4) - N(pc'[p2] > 1)
    BY <1>2, <1>3, <1>4, <1>5, <1>6, <1>7, <1>9, <1>10, <1>11, <1>12 DEF Values, N
  <1>15. sem'["s"] = N(pc'[p2] > 2) - N(pc'[p2] > 3)
    BY <1>2, <1>3, <1>4, <1>5, <1>6, <1>7, <1>9, <1>10, <1>11, <1>12 DEF Values, N
  <1>16. sem'["endp2"] = N(pc'[p2] > 7) - N(pc'[p1] > 5)
    BY <1>2, <1>3, <1>4, <1>5, <1>6, <1>7, <1>9, <1>10, <1>11, <1>12 DEF Values, N
  <1>17. sem'["endp3"] = N(pc'[p3] > 4) - N(pc'[p1] > 8)
    BY <1>2, <1>3, <1>4, <1>5, <1>6, <1>7, <1>9, <1>10, <1>11, <1>12 DEF Values, N
  <1>18. sem'["synp4"] = N(pc'[p4] > 2) + N(pc'[p4b] > 2) - N(pc'[p4] > 4) - N(pc'[p4] > 6)
    BY <1>2, <1>3, <1>4, <1>5, <1>6, <1>7, <1>9, <1>10, <1>11, <1>12 DEF Values, N
  <1>19. sem'["blkp4"] = 1 + N(pc'[p5] > 9) - N(pc'[p4] > 3) - N(pc'[p4b] = 4) - N(pc'[p1] > 14)
    BY <1>2, <1>3, <1>4, <1>5, <1>6, <1>7, <1>9, <1>10, <1>11, <1>12 DEF Values, N
  <1>20. sem'["endp4"] = N(pc'[p4] > 8) - N(pc'[p5] > 7)
    BY <1>2, <1>3, <1>4, <1>5, <1>6, <1>7, <1>9, <1>10, <1>11, <1>12 DEF Values, N
  <1>21. sem'["endp5"] = N(pc'[p5] > 10) - N(pc'[p1] > 13)
    BY <1>2, <1>3, <1>4, <1>5, <1>6, <1>7, <1>9, <1>10, <1>11, <1>12 DEF Values, N
  <1> QED
    BY <1>13, <1>14, <1>15, <1>16, <1>17, <1>18, <1>19, <1>20, <1>21 DEF Values

\* No other step passes such a place, but for the killing of p4b.
LEMMA ValuesKept ==
  ASSUME IInv, [Next]_vars, ~refused'
  PROVE  Values'
  <1> USE DEF IInv
  <1>0. /\ pc \in [Proc -> 0..Ended] /\ sem \in [Semaphore -> Int] /\ Ended \in Nat /\ Ended > 18
        /\ {p1, p2, p3, p4, p4b, p5} \subseteq Proc
        /\ \A x \in {p1, p2, p3, p4, p4b, p5} : \A k \in Counts(x) : k \in 1..14
    BY Names, Lengths, RoundsAssumption DEF TypeOK, Counts
  <1>1. ASSUME NEW p \in Proc, Moves(p), pc[p] \notin Counts(p), ~(p = p4b /\ pc[p] \in {3, 4})
        PROVE  SameCounts
    <2>1. \A x \in Proc, k \in Nat : /\ pc'[x] > k <=> (pc[x] > k \/ (x = p /\ pc[p] = k))
                                     /\ x # p => pc'[x] = pc[x]
                                     /\ pc'[p] = pc[p] + 1
      BY <1>1, Threshold
    <2>2. pc'[p4b] = 4 <=> pc[p4b] = 4
      BY <1>0, <1>1, <2>1
    <2> QED
      BY <1>0, <1>1, <2>1, <2>2 DEF SameCounts
  <1>2. ASSUME NEW p \in Proc, QuietStep(p) PROVE Values'
    <2>1. SameCounts
      <3>1. QuietAt(p, pc[p])
        BY <1>2 DEF QuietStep
      <3>2. pc[p] \notin Counts(p) /\ ~(p = p4b /\ pc[p] \in {3, 4})
        BY <3>1, NotCounted, Names DEF QuietAt
      <3>3. UNCHANGED pc => SameCounts
        BY DEF SameCounts
      <3> QED
        BY <1>1, <1>2, <3>2, <3>3 DEF QuietStep
    <2> QED
      BY <1>2, <2>1, SameValues DEF QuietStep
  <1>3. ASSUME NEW p \in Proc, NEW c \in Proc, CreateStep(p, c) PROVE Values'
    <2>1. CreateAt(p, pc[p], c) /\ pc' = [pc EXCEPT ![p] = pc[p] + 1, ![c] = 1]
      BY <1>3 DEF CreateStep
    <2>2. pc[c] = 0 /\ p # c /\ pc[p] \notin Counts(p) /\ p # p4b
      BY <2>1, Newborn, NotCounted, CreatePlaces, Names
    <2>3. /\ pc'[p] = pc[p] + 1 /\ pc'[c] = 1
          /\ \A x \in Proc : x # p /\ x # c => pc'[x] = pc[x]
      BY <1>0, <2>1, <2>2
    <2>4. ASSUME NEW x \in {p1, p2, p3, p4, p4b, p5}, NEW k \in Counts(x)
          PROVE  pc'[x] > k <=> pc[x] > k
      <3>1. x \in Proc /\ k \in 1..14 /\ pc[x] \in 0..Ended
        BY <1>0, <2>4
      <3>2. CASE x = p
        <4>1. k # pc[p]
          BY <2>2, <2>4, <3>2
        <4> QED
          BY <2>3, <3>1, <3>2, <4>1
      <3>3. CASE x = c
        BY <2>2, <2>3, <3>1, <3>3
      <3>4. CASE x # p /\ x # c
        BY <2>3, <3>1, <3>4
      <3> QED
        BY <3>2, <3>3, <3>4
    <2>5. pc'[p4b] = 4 <=> pc[p4b] = 4
      BY <1>0, <2>2, <2>3
    <2>6. SameCounts
      BY <2>4, <2>5 DEF SameCounts
    <2> QED
      BY <1>3, <2>6, SameValues DEF CreateStep
  <1>4. ASSUME NEW p \in Proc, EndStep(p) PROVE Values'
    <2>1. EndAt(p, pc[p]) /\ pc' = [pc EXCEPT ![p] = Ended] /\ sem' = sem
      BY <1>4 DEF EndStep
    <2>2. p # p4b /\ \A k \in Counts(p) : pc[p] > k
      BY <2>1, Names, RoundsAssumption DEF EndAt, Counts, LeafRoles
    <2>3. pc'[p] = Ended /\ \A x \in Proc : x # p => pc'[x] = pc[x]
      BY <1>0, <2>1
    <2>4. SameCounts
      BY <1>0, <2>2, <2>3 DEF SameCounts
    <2> QED
      BY <2>1, <2>4, SameValues
  <1>5. ASSUME Still PROVE Values'
    BY <1>5, SameValues DEF Still, SameCounts
  <1>6. ASSUME KillStep PROVE Values'
    <2>1. /\ pc[p4] = 7 /\ pc[p4b] \in {3, 4}
          /\ pc' = [pc EXCEPT ![p4] = 8, ![p4b] = Ended]
          /\ sem' = IF wait[p4b] \in Semaphore
                    THEN [sem EXCEPT ![wait[p4b]] = sem[wait[p4b]] + 1] ELSE sem
      BY <1>6 DEF KillStep, GiveBack
    <2>2. /\ pc'[p4] = 8 /\ pc'[p4b] = Ended
          /\ \A x \in Proc : x # p4 /\ x # p4b => pc'[x] = pc[x]
      BY <1>0, <2>1, Names
    <2>3. /\ \A x \in {p1, p2, p3, p5} : pc'[x] = pc[x]
          /\ pc'[p4] > 2 /\ pc[p4] > 2 /\ pc'[p4] > 3 /\ pc[p4] > 3 /\ pc'[p4] > 4 /\ pc[p4] > 4
          /\ pc'[p4] > 6 /\ pc[p4] > 6 /\ ~(pc'[p4] > 8) /\ ~(pc[p4] > 8)
          /\ pc'[p4b] > 2 /\ pc[p4b] > 2 /\ pc'[p4b] # 4
      BY <1>0, <2>1, <2>2, Names
    <2>4. wait[p4b] \in Semaphore <=> pc[p4b] = 4
      <3>1. wait[p4b] \in Semaphore => PAt(p4b, pc[p4b] - 1, wait[p4b])
        BY Names DEF WaitsFor
      <3>2. wait[p4b] \in Semaphore => pc[p4b] = 4
        BY <3>1, <2>1, Names DEF PAt, LeafRoles
      <3> QED
        BY <3>2 DEF P4Facts, Semaphore
    <2>5. CASE pc[p4b] = 4
      <3>1. wait[p4b] = "blkp4"
        BY <2>5 DEF P4Facts
      <3>2. sem' = [sem EXCEPT !["blkp4"] = sem["blkp4"] + 1]
        BY <2>1, <3>1 DEF Semaphore
      <3>3. /\ sem'["testsem"] = sem["testsem"] /\ sem'["startp2"] = sem["startp2"]
            /\ sem'["s"] = sem["s"] /\ sem'["endp2"] = sem["endp2"]
            /\ sem'["endp3"] = sem["endp3"] /\ sem'["synp4"] = sem["synp4"]
            /\ sem'["blkp4"] = sem["blkp4"] + 1
            /\ sem'["endp4"] = sem["endp4"] /\ sem'["endp5"] = sem["endp5"]
        BY <1>0, <3>2 DEF Semaphore
      <3>4. sem["blkp4"] \in Int
        BY <1>0 DEF Semaphore
      <3>5. pc'[p1] = pc[p1] /\ pc'[p2] = pc[p2] /\ pc'[p3] = pc[p3] /\ pc'[p5] = pc[p5]
        BY <2>3
      <3> QED
        BY <2>3, <2>5, <3>3, <3>4, <3>5 DEF Values, N
    <2>6. CASE pc[p4b] # 4
      <3>1. sem' = sem
        BY <2>1, <2>4, <2>6
      <3>2. pc'[p1] = pc[p1] /\ pc'[p2] = pc[p2] /\ pc'[p3] = pc[p3] /\ pc'[p5] = pc[p5]
        BY <2>3
      <3> QED
        BY <2>3, <2>6, <3>1, <3>2 DEF Values, N
    <2> QED
      BY <2>5, <2>6
  <1> QED
    BY <1>2, <1>3, <1>4, <1>5, <1>6, PValues, VValues, AnyForm

\* Nobody goes back.
LEMMA Forward ==
  ASSUME IInv, [Next]_vars, ~refused', NEW q \in Proc
  PROVE  /\ pc[q] \in 0..Ended /\ pc'[q] \in 0..Ended /\ pc'[q] >= pc[q]
         /\ \A k \in Nat : pc'[q] > k /\ ~(pc[q] > k) /\ ~EndAt(q, pc[q]) /\ q # p4b
              => pc[q] = k /\ (k > 0 => wait[q] = "nothing" /\ Onward(q, k))
         /\ \A k \in Nat : pc'[q] > k /\ ~(pc[q] > k) /\ EndAt(q, pc[q]) /\ q # p4b
              => wait[q] = "nothing"
  <1>1. pc[q] \in 0..Ended /\ Ended \in Nat
    BY Lengths, RoundsAssumption DEF IInv, TypeOK
  <1>2. pc'[q] \in 0..Ended
    <2>1. TypeOK' /\ Ended' = Ended
      BY TypeKept DEF Ended
    <2> QED
      BY <2>1 DEF TypeOK
  <1>3. \/ pc'[q] = pc[q]
        \/ wait[q] = "nothing" /\ Onward(q, pc[q]) /\ pc'[q] = pc[q] + 1
        \/ wait[q] = "nothing" /\ EndAt(q, pc[q]) /\ pc'[q] = Ended
        \/ q = p4b /\ pc'[q] = Ended
        \/ pc[q] = 0 /\ pc'[q] = 1
    BY PcAfter DEF Ready
  <1>4. pc'[q] >= pc[q]
    BY <1>1, <1>2, <1>3
  <1>5. ASSUME NEW k \in Nat, pc'[q] > k, ~(pc[q] > k), ~EndAt(q, pc[q]), q # p4b
        PROVE  pc[q] = k /\ (k > 0 => wait[q] = "nothing" /\ Onward(q, k))
    <2>1. CASE wait[q] = "nothing" /\ Onward(q, pc[q]) /\ pc'[q] = pc[q] + 1
      <3>1. pc[q] = k
        BY <1>1, <1>5, <2>1
      <3> QED
        BY <2>1, <3>1
    <2>2. CASE pc[q] = 0 /\ pc'[q] = 1
      BY <1>5, <2>2
    <2> QED
      BY <1>3, <1>5, <2>1, <2>2
  <1>6. ASSUME NEW k \in Nat, pc'[q] > k, ~(pc[q] > k), EndAt(q, pc[q]), q # p4b
        PROVE  wait[q] = "nothing"
    <2>1. pc[q] # 0
      BY <1>6, RoundsAssumption DEF EndAt
    <2> QED
      BY <1>3, <1>6, <2>1
  <1> QED
    BY <1>1, <1>2, <1>4, <1>5, <1>6

\* The rounds stay in order, by what p1, p8root and child1 have waited for.
LEMMA InOrderKept ==
  ASSUME IInv, [Next]_vars, ~refused'
  PROVE  InOrder'
  <1> USE DEF IInv
  <1>1. ASSUME NEW r \in Round
        PROVE  /\ p1 \in Proc /\ p1 # p4b
               /\ Member("p8root", r) \in Proc /\ Member("p8root", r) # p4b
               /\ Member("child1", r) \in Proc /\ Member("child1", r) # p4b
               /\ Member("curiousleaf", r) \in Proc /\ Member("leaf1", r) \in Proc
               /\ Member("leaf2", r) \in Proc /\ Member("leaf3", r) \in Proc
    BY Names DEF P8Roles
  <1>2. ASSUME NEW r \in Round, Over(r)' PROVE At("p8root", r)' > 9
    <2>1. CASE pc[p1] > 15 + 2 * r
      BY <1>1, <2>1, Forward DEF InOrder, Over, At
    <2>2. CASE ~(pc[p1] > 15 + 2 * r)
      <3>1. 15 + 2 * r \in Nat /\ pc'[p1] > 15 + 2 * r /\ 15 + 2 * r > 0
        BY <1>2 DEF Over, Round
      <3>2. pc[p1] = 15 + 2 * r /\ wait[p1] = "nothing"
        <4>1. CASE EndAt(p1, pc[p1])
          <5>1. pc[p1] = 15 + 2 * Rounds /\ wait[p1] = "nothing"
            BY <1>1, <2>2, <3>1, <4>1, Forward, Names DEF EndAt, LeafRoles
          <5> QED
            BY <2>2, <5>1, RoundsAssumption DEF Round
        <4>2. CASE ~EndAt(p1, pc[p1])
          BY <1>1, <2>2, <3>1, <4>2, Forward
        <4> QED
          BY <4>1, <4>2
      <3>3. At("p8root", r) > 9
        BY <3>2, RoundSignalled DEF Past
      <3> QED
        BY <1>1, <3>3, Forward DEF At
    <2> QED
      BY <2>1, <2>2
  <1>3. ASSUME NEW r \in Round, Reported(r) = 4 PROVE Reported(r)' = 4
    <2>1. /\ At("leaf1", r) > 1 /\ At("leaf2", r) > 1 /\ At("leaf3", r) > 1
          /\ At("curiousleaf", r) > 3
      BY <1>3, ReportedType
    <2>2. /\ At("leaf1", r)' > 1 /\ At("leaf2", r)' > 1 /\ At("leaf3", r)' > 1
          /\ At("curiousleaf", r)' > 3
      BY <1>1, <2>1, Forward DEF At
    <2> QED
      BY <2>2 DEF Reported, N
  <1>4. ASSUME NEW r \in Round, At("p8root", r)' > 8 PROVE Reported(r)' = 4
    <2>1. CASE At("p8root", r) > 8
      BY <1>3, <2>1 DEF InOrder
    <2>2. CASE ~(At("p8root", r) > 8)
      <3>1. ~EndAt(Root(r), pc[Root(r)])
        BY <2>2, Names DEF EndAt, At, Root, LeafRoles
      <3>2. pc[Root(r)] = 8 /\ wait[Root(r)] = "nothing"
        BY <1>1, <1>4, <2>2, <3>1, Forward DEF At, Root
      <3> QED
        BY <1>3, <3>2, RoundSignalled DEF Past
    <2> QED
      BY <2>1, <2>2
  <1>5. ASSUME NEW r \in Round, NEW role \in Late, At(role, r)' > HasIt(role)
        PROVE  At("p8root", r)' > 8
    <2> DEFINE p == Member(role, r)
               k == HasIt(role)
    <2>0. /\ p \in Proc /\ p # p4b /\ Role(p) = role /\ At(role, r) = pc[p]
          /\ At(role, r)' = pc'[p] /\ k \in Nat /\ k > 0
      BY Names DEF P8Roles, Late, At, HasIt
    <2>1. CASE pc[p] > k
      BY <1>1, <2>0, <2>1, Forward DEF InOrder, At, Late, HasIt
    <2>2. CASE ~(pc[p] > k)
      <3>1. ~EndAt(p, pc[p])
        BY <2>0, <2>2 DEF EndAt, LeafRoles, Late, HasIt
      <3>2. pc[p] = k /\ wait[p] = "nothing"
        BY <1>5, <2>0, <2>2, <3>1, Forward
      <3>3. At("p8root", r) > 8
        BY <2>0, <3>2, LateInside
      <3> QED
        BY <1>1, <3>3, Forward DEF At
    <2> QED
      BY <2>1, <2>2
  <1>6. \A r \in Round : \/ At("child1", r)' > 4 \/ At("child2", r)' > 4
                        \/ At("leaf2", r)' > 3 \/ At("leaf3", r)' > 3
                        => At("p8root", r)' > 8
    BY <1>5 DEF Late, HasIt
  <1> QED
    BY <1>2, <1>4, <1>6 DEF InOrder

\* Who reports is a leaf whose report p8root still waits for.
LEMMA Current ==
  ASSUME TypeOK, CreatedIn8, InOrder, NEW p \in Proc, Role(p) \in P8Roles,
         \/ Role(p) = "p8root" /\ pc[p] \in 1..9
         \/ Role(p) \in LeafRoles /\ pc[p] = 1
         \/ Role(p) = "curiousleaf" /\ pc[p] \in 1..3
  PROVE  Turn(p) \in Round /\ p = Member(Role(p), Turn(p)) /\ Now(Turn(p))
  <1> DEFINE r == Turn(p)
  <1>1. r \in Round /\ p = Member(Role(p), r)
    BY Roles
  <1> HIDE DEF r
  <1>2. /\ At("leaf1", r) \in 0..Ended /\ At("leaf2", r) \in 0..Ended
        /\ At("leaf3", r) \in 0..Ended /\ At("curiousleaf", r) \in 0..Ended
        /\ At("p8root", r) \in 0..Ended /\ At("child1", r) \in 0..Ended
        /\ At("child2", r) \in 0..Ended /\ At("intermediate", r) \in 0..Ended
        /\ Ended \in Nat
    BY <1>1, Members, Lengths, RoundsAssumption DEF TypeOK, At, P8Roles
  <1>3. CASE Role(p) = "p8root" /\ pc[p] \in 1..9
    BY <1>1, <1>3, OneRound DEF At, r
  <1>4. CASE \/ Role(p) \in LeafRoles /\ pc[p] = 1
             \/ Role(p) = "curiousleaf" /\ pc[p] \in 1..3
    <2>1. At("p8root", r) > 0
      BY <1>1, <1>2, <1>4 DEF CreatedIn8, CreatedIn, At, LeafRoles
    <2>2. Reported(r) # 4
      BY <1>1, <1>4, ReportedType DEF At, LeafRoles
    <2>3. At("p8root", r) \in 1..9
      BY <1>1, <1>2, <2>1, <2>2 DEF InOrder
    <2> QED
      BY <1>1, <2>3, OneRound DEF r
  <1> QED
    BY <1>3, <1>4

\* What a move adds to the counts of a round.
LEMMA RoundCounts ==
  ASSUME TypeOK, NEW p \in Proc, Moves(p), NEW r \in Round
  PROVE  /\ Turn(p) = r /\ VAt(p, pc[p], "endcreate") => Reported(r)' = Reported(r) + 1
         /\ ~(Turn(p) = r /\ VAt(p, pc[p], "endcreate")) => Reported(r)' = Reported(r)
         /\ Turn(p) = r /\ PAt(p, pc[p], "endcreate") => Taken(r)' = Taken(r) + 1
         /\ ~(Turn(p) = r /\ PAt(p, pc[p], "endcreate")) => Taken(r)' = Taken(r)
         /\ At("p8root", r)' > 9 <=> (At("p8root", r) > 9 \/ (p = Root(r) /\ pc[p] = 9))
         /\ pc'[p1] > 14 + 2 * r <=> (pc[p1] > 14 + 2 * r \/ (p = p1 /\ pc[p] = 14 + 2 * r))
  <1>0. /\ Member("leaf1", r) \in Proc /\ Member("leaf2", r) \in Proc
        /\ Member("leaf3", r) \in Proc /\ Member("curiousleaf", r) \in Proc
        /\ Member("p8root", r) \in Proc /\ p1 \in Proc /\ 14 + 2 * r \in Nat
    BY Names DEF P8Roles, Round
  <1>1. \A x \in Proc, k \in Nat : pc'[x] > k <=> (pc[x] > k \/ (x = p /\ pc[p] = k))
    BY Threshold
  <1>2. /\ At("leaf1", r)' > 1 <=> (At("leaf1", r) > 1 \/ (p = Member("leaf1", r) /\ pc[p] = 1))
        /\ At("leaf2", r)' > 1 <=> (At("leaf2", r) > 1 \/ (p = Member("leaf2", r) /\ pc[p] = 1))
        /\ At("leaf3", r)' > 1 <=> (At("leaf3", r) > 1 \/ (p = Member("leaf3", r) /\ pc[p] = 1))
        /\ At("curiousleaf", r)' > 3
           <=> (At("curiousleaf", r) > 3 \/ (p = Member("curiousleaf", r) /\ pc[p] = 3))
    BY <1>0, <1>1 DEF At
  <1>3. /\ At("p8root", r)' > 4 <=> (At("p8root", r) > 4 \/ (p = Root(r) /\ pc[p] = 4))
        /\ At("p8root", r)' > 5 <=> (At("p8root", r) > 5 \/ (p = Root(r) /\ pc[p] = 5))
        /\ At("p8root", r)' > 6 <=> (At("p8root", r) > 6 \/ (p = Root(r) /\ pc[p] = 6))
        /\ At("p8root", r)' > 7 <=> (At("p8root", r) > 7 \/ (p = Root(r) /\ pc[p] = 7))
        /\ At("p8root", r)' > 9 <=> (At("p8root", r) > 9 \/ (p = Root(r) /\ pc[p] = 9))
    BY <1>0, <1>1 DEF At, Root
  <1>4. Turn(p) = r /\ VAt(p, pc[p], "endcreate")
        <=> \/ p = Member("leaf1", r) /\ pc[p] = 1
            \/ p = Member("leaf2", r) /\ pc[p] = 1
            \/ p = Member("leaf3", r) /\ pc[p] = 1
            \/ p = Member("curiousleaf", r) /\ pc[p] = 3
    BY Names, Roles DEF VAt, LeafRoles, P8Roles
  <1>5. Turn(p) = r /\ PAt(p, pc[p], "endcreate") <=> p = Root(r) /\ pc[p] \in 4..7
    BY Names, Roles, WhoPs DEF PAt, Root, P8Roles
  <1>6. /\ Member("leaf1", r) # Member("leaf2", r) /\ Member("leaf1", r) # Member("leaf3", r)
        /\ Member("leaf2", r) # Member("leaf3", r)
        /\ Member("leaf1", r) # Member("curiousleaf", r)
        /\ Member("leaf2", r) # Member("curiousleaf", r)
        /\ Member("leaf3", r) # Member("curiousleaf", r)
    BY Names
  <1>7. CASE p = Member("leaf1", r) /\ pc[p] = 1
    <2>1. Reported(r)' = Reported(r) + 1
      BY <1>2, <1>6, <1>7 DEF Reported, N, At
    <2>2. Taken(r)' = Taken(r)
      BY <1>3, <1>7, Names DEF Taken, N, Root
    <2> QED
      BY <1>1, <1>0, <1>3, <1>4, <1>5, <1>7, <2>1, <2>2, Names DEF Root
  <1>8. CASE p = Member("leaf2", r) /\ pc[p] = 1
    <2>1. Reported(r)' = Reported(r) + 1
      BY <1>2, <1>6, <1>8 DEF Reported, N, At
    <2>2. Taken(r)' = Taken(r)
      BY <1>3, <1>8, Names DEF Taken, N, Root
    <2> QED
      BY <1>1, <1>0, <1>3, <1>4, <1>5, <1>8, <2>1, <2>2, Names DEF Root
  <1>9. CASE p = Member("leaf3", r) /\ pc[p] = 1
    <2>1. Reported(r)' = Reported(r) + 1
      BY <1>2, <1>6, <1>9 DEF Reported, N, At
    <2>2. Taken(r)' = Taken(r)
      BY <1>3, <1>9, Names DEF Taken, N, Root
    <2> QED
      BY <1>1, <1>0, <1>3, <1>4, <1>5, <1>9, <2>1, <2>2, Names DEF Root
  <1>10. CASE p = Member("curiousleaf", r) /\ pc[p] = 3
    <2>1. Reported(r)' = Reported(r) + 1
      BY <1>2, <1>6, <1>10 DEF Reported, N, At
    <2>2. Taken(r)' = Taken(r)
      BY <1>3, <1>10, Names DEF Taken, N, Root
    <2> QED
      BY <1>1, <1>0, <1>3, <1>4, <1>5, <1>10, <2>1, <2>2, Names DEF Root
  <1>11. CASE ~(Turn(p) = r /\ VAt(p, pc[p], "endcreate"))
    <2>1. Reported(r)' = Reported(r)
      BY <1>2, <1>4, <1>11 DEF Reported, N
    <2>2. CASE p = Root(r) /\ pc[p] \in 4..7
      <3>1. Taken(r)' = Taken(r) + 1
        BY <1>3, <2>2 DEF Taken, N, At, Root
      <3> QED
        BY <1>0, <1>1, <1>3, <1>5, <1>11, <2>1, <2>2, <3>1
    <2>3. CASE ~(p = Root(r) /\ pc[p] \in 4..7)
      <3>1. Taken(r)' = Taken(r)
        BY <1>3, <2>3 DEF Taken, N
      <3> QED
        BY <1>0, <1>1, <1>3, <1>5, <1>11, <2>1, <2>3, <3>1
    <2> QED
      BY <2>2, <2>3
  <1> QED
    BY <1>4, <1>7, <1>8, <1>9, <1>10, <1>11

\* A place is of one kind, and about one semaphore.
LEMMA OneThing ==
  ASSUME NEW p \in Proc, NEW i, NEW s
  PROVE  /\ PAt(p, i, s) => /\ \A t : ~VAt(p, i, t) /\ (PAt(p, i, t) => t = s)
                            /\ ~QuietAt(p, i) /\ ~EndAt(p, i)
         /\ VAt(p, i, s) => /\ \A t : VAt(p, i, t) => t = s
                            /\ ~QuietAt(p, i) /\ ~EndAt(p, i)
         /\ QuietAt(p, i) => ~EndAt(p, i)
  <1>1. ASSUME PAt(p, i, s), NEW t PROVE ~VAt(p, i, t)
    BY <1>1, RoundsAssumption DEF PAt, VAt, Round, LeafRoles
  <1>2. ASSUME PAt(p, i, s), NEW t, PAt(p, i, t) PROVE t = s
    BY <1>2, RoundsAssumption DEF PAt, Round, LeafRoles
  <1>3. ASSUME PAt(p, i, s) PROVE ~QuietAt(p, i) /\ ~EndAt(p, i)
    BY <1>3, RoundsAssumption DEF PAt, QuietAt, EndAt, Round, LeafRoles
  <1>4. ASSUME VAt(p, i, s), NEW t, VAt(p, i, t) PROVE t = s
    BY <1>4 DEF VAt, LeafRoles
  <1>5. ASSUME VAt(p, i, s) PROVE ~QuietAt(p, i) /\ ~EndAt(p, i)
    BY <1>5, RoundsAssumption DEF VAt, QuietAt, EndAt, LeafRoles
  <1>6. ASSUME QuietAt(p, i) PROVE ~EndAt(p, i)
    BY <1>6, RoundsAssumption DEF QuietAt, EndAt, LeafRoles
  <1> QED
    BY <1>1, <1>2, <1>3, <1>4, <1>5, <1>6

\* p1 goes from round to round where it creates p8root.
LEMMA SameRound ==
  ASSUME TypeOK, NEW p \in Proc, Moves(p), NEW s, NEW r \in Round,
         \/ PAt(p, pc[p], s) \/ VAt(p, pc[p], s) \/ QuietAt(p, pc[p]) \/ p # p1
  PROVE  (Begun(r)' <=> Begun(r)) /\ (Over(r)' <=> Over(r))
  <1>1. 13 + 2 * r \in Nat /\ 15 + 2 * r \in Nat /\ p1 \in Proc
    BY Names DEF Round
  <1>2. ~(p = p1 /\ pc[p] = 13 + 2 * r) /\ ~(p = p1 /\ pc[p] = 15 + 2 * r)
    BY Names, RoundsAssumption DEF PAt, VAt, QuietAt, Round, LeafRoles
  <1> QED
    BY <1>1, <1>2, Threshold DEF Begun, Over

\* The values of the rounds stay when nothing they are counted from changes.
LEMMA RoundsSame ==
  ASSUME RoundValues,
         sem'["endp8"] = sem["endp8"], sem'["endcreate"] = sem["endcreate"],
         \A r \in Round : /\ Begun(r)' <=> Begun(r)
                          /\ Over(r)' <=> Over(r)
                          /\ Reported(r)' = Reported(r)
                          /\ Taken(r)' = Taken(r)
                          /\ At("p8root", r)' > 9 <=> At("p8root", r) > 9
                          /\ pc'[p1] > 14 + 2 * r <=> pc[p1] > 14 + 2 * r
  PROVE  RoundValues'
  <1>1. \A r \in Round : Now(r)' <=> Now(r)
    BY DEF Now
  <1>2. ASSUME NEW r \in Round, Now(r)'
        PROVE  /\ sem'["endp8"] = N(At("p8root", r)' > 9) - N(pc'[p1] > 14 + 2 * r)
               /\ sem'["endcreate"] = Reported(r)' - Taken(r)'
    <2>1. /\ sem["endp8"] = N(At("p8root", r) > 9) - N(pc[p1] > 14 + 2 * r)
          /\ sem["endcreate"] = Reported(r) - Taken(r)
      BY <1>1, <1>2 DEF RoundValues
    <2>2. /\ N(At("p8root", r)' > 9) = N(At("p8root", r) > 9)
          /\ N(pc'[p1] > 14 + 2 * r) = N(pc[p1] > 14 + 2 * r)
      BY <1>2 DEF N
    <2> QED
      BY <2>1, <2>2
  <1>3. (\A r \in Round : ~Now(r)') => sem'["endp8"] = 0 /\ sem'["endcreate"] = 0
    BY <1>1 DEF RoundValues
  <1> QED
    BY <1>2, <1>3 DEF RoundValues, N

\* A P of endp8 or endcreate belongs to the round that is on.
LEMMA PRounds ==
  ASSUME IInv, NEW p \in Proc, NEW s \in Semaphore, PStep(p, s)
  PROVE  RoundValues'
  <1> USE DEF IInv
  <1>1. /\ PAt(p, pc[p], s) /\ Moves(p)
        /\ sem["endp8"] \in Int /\ sem["endcreate"] \in Int
        /\ sem'["endp8"] = IF s = "endp8" THEN sem["endp8"] - 1 ELSE sem["endp8"]
        /\ sem'["endcreate"] = IF s = "endcreate" THEN sem["endcreate"] - 1 ELSE sem["endcreate"]
    BY DEF PStep, TypeOK, Semaphore
  <1>2. ASSUME NEW r \in Round
        PROVE  (Begun(r)' <=> Begun(r)) /\ (Over(r)' <=> Over(r)) /\ (Now(r)' <=> Now(r))
    BY <1>1, SameRound DEF Now
  <1>3. ~VAt(p, pc[p], "endcreate") /\ (PAt(p, pc[p], "endcreate") => s = "endcreate")
    BY <1>1, OneThing
  <1>4. ASSUME NEW r \in Round
        PROVE  /\ Reported(r)' = Reported(r) /\ Reported(r) \in Int /\ Taken(r) \in Int
               /\ At("p8root", r)' > 9 <=> At("p8root", r) > 9
    <2>1. ~(p = Root(r) /\ pc[p] = 9)
      BY <1>1, Names DEF PAt, Root, LeafRoles
    <2> QED
      BY <1>1, <1>3, <2>1, RoundCounts, ReportedType
  <1>5. CASE s = "endp8"
    <2>1. PICK r \in Round : p = p1 /\ pc[p] = 14 + 2 * r
      BY <1>1, <1>5, WhoPs
    <2>2. Now(r) /\ ~(pc[p1] > 14 + 2 * r) /\ pc'[p1] > 14 + 2 * r /\ Taken(r)' = Taken(r)
      BY <1>1, <1>3, <1>5, <2>1, RoundCounts, Names DEF Now, Begun, Over, Round
    <2>3. /\ sem'["endp8"] = N(At("p8root", r)' > 9) - N(pc'[p1] > 14 + 2 * r)
          /\ sem'["endcreate"] = Reported(r)' - Taken(r)'
      <3>1. /\ sem["endp8"] = N(At("p8root", r) > 9) - N(pc[p1] > 14 + 2 * r)
            /\ sem["endcreate"] = Reported(r) - Taken(r)
        BY <2>2 DEF RoundValues
      <3>2. N(At("p8root", r)' > 9) = N(At("p8root", r) > 9) /\ N(At("p8root", r) > 9) \in Int
        BY <1>4 DEF N
      <3>3. N(pc[p1] > 14 + 2 * r) = 0 /\ N(pc'[p1] > 14 + 2 * r) = 1
        BY <2>2 DEF N
      <3> QED
        BY <1>1, <1>4, <1>5, <2>2, <3>1, <3>2, <3>3
    <2>4. \A x \in Round : Now(x)' => x = r
      BY <1>2, <2>2, OneRound
    <2> QED
      BY <1>2, <2>2, <2>3, <2>4 DEF RoundValues
  <1>6. CASE s = "endcreate"
    <2> DEFINE r == Turn(p)
    <2>1. Role(p) = "p8root" /\ pc[p] \in 4..7
      BY <1>1, <1>6, WhoPs
    <2>2. r \in Round /\ Now(r) /\ p # p1
      BY <2>1, Current, Names DEF P8Roles
    <2> HIDE DEF r
    <2>3. Taken(r)' = Taken(r) + 1 /\ (pc'[p1] > 14 + 2 * r <=> pc[p1] > 14 + 2 * r)
      BY <1>1, <1>6, <2>2, RoundCounts DEF r
    <2>4. /\ sem'["endp8"] = N(At("p8root", r)' > 9) - N(pc'[p1] > 14 + 2 * r)
          /\ sem'["endcreate"] = Reported(r)' - Taken(r)'
      <3>1. /\ sem["endp8"] = N(At("p8root", r) > 9) - N(pc[p1] > 14 + 2 * r)
            /\ sem["endcreate"] = Reported(r) - Taken(r)
        BY <2>2 DEF RoundValues
      <3>2. N(At("p8root", r)' > 9) = N(At("p8root", r) > 9)
        BY <1>4, <2>2 DEF N
      <3>3. N(pc[p1] > 14 + 2 * r) = N(pc'[p1] > 14 + 2 * r)
        BY <2>3 DEF N
      <3> QED
        BY <1>1, <1>4, <1>6, <2>2, <2>3, <3>1, <3>2, <3>3
    <2>5. \A x \in Round : Now(x)' => x = r
      BY <1>2, <2>2, OneRound
    <2> QED
      BY <1>2, <2>2, <2>4, <2>5 DEF RoundValues
  <1>7. CASE s # "endp8" /\ s # "endcreate"
    <2>1. ASSUME NEW r \in Round
          PROVE  Taken(r)' = Taken(r) /\ (pc'[p1] > 14 + 2 * r <=> pc[p1] > 14 + 2 * r)
      <3>1. ~(p = p1 /\ pc[p] = 14 + 2 * r)
        BY <1>1, <1>7, Names DEF PAt, Round
      <3> QED
        BY <1>1, <1>3, <1>7, <3>1, RoundCounts
    <2> QED
      BY <1>1, <1>2, <1>4, <1>7, <2>1, RoundsSame
  <1> QED
    BY <1>5, <1>6, <1>7

\* And so does a V.
LEMMA VRounds ==
  ASSUME IInv, NEW p \in Proc, NEW s \in Semaphore, VStep(p, s)
  PROVE  RoundValues'
  <1> USE DEF IInv
  <1>1. /\ VAt(p, pc[p], s) /\ Moves(p)
        /\ sem["endp8"] \in Int /\ sem["endcreate"] \in Int
        /\ sem'["endp8"] = IF s = "endp8" THEN sem["endp8"] + 1 ELSE sem["endp8"]
        /\ sem'["endcreate"] = IF s = "endcreate" THEN sem["endcreate"] + 1 ELSE sem["endcreate"]
    BY DEF VStep, TypeOK, Semaphore
  <1>2. ASSUME NEW r \in Round
        PROVE  (Begun(r)' <=> Begun(r)) /\ (Over(r)' <=> Over(r)) /\ (Now(r)' <=> Now(r))
    BY <1>1, SameRound DEF Now
  <1>3. ~PAt(p, pc[p], "endcreate") /\ (VAt(p, pc[p], "endcreate") => s = "endcreate")
    BY <1>1, OneThing
  <1>4. ASSUME NEW r \in Round
        PROVE  /\ Taken(r)' = Taken(r) /\ Reported(r) \in Int /\ Taken(r) \in Int
               /\ pc'[p1] > 14 + 2 * r <=> pc[p1] > 14 + 2 * r
    <2>1. ~(p = p1 /\ pc[p] = 14 + 2 * r)
      BY <1>1, Names DEF VAt, LeafRoles, Round
    <2> QED
      BY <1>1, <1>3, <2>1, RoundCounts, ReportedType
  <1>5. CASE s = "endp8"
    <2> DEFINE r == Turn(p)
    <2>1. Role(p) = "p8root" /\ pc[p] = 9
      BY <1>1, <1>5 DEF VAt
    <2>2. r \in Round /\ Now(r) /\ p = Root(r)
      BY <2>1, Current DEF P8Roles, Root
    <2> HIDE DEF r
    <2>3. /\ At("p8root", r)' > 9 /\ ~(At("p8root", r) > 9)
          /\ Reported(r)' = Reported(r)
      BY <1>1, <1>3, <1>5, <2>1, <2>2, RoundCounts DEF At, Root
    <2>4. /\ sem'["endp8"] = N(At("p8root", r)' > 9) - N(pc'[p1] > 14 + 2 * r)
          /\ sem'["endcreate"] = Reported(r)' - Taken(r)'
      <3>1. /\ sem["endp8"] = N(At("p8root", r) > 9) - N(pc[p1] > 14 + 2 * r)
            /\ sem["endcreate"] = Reported(r) - Taken(r)
        BY <2>2 DEF RoundValues
      <3>2. N(At("p8root", r)' > 9) = 1 /\ N(At("p8root", r) > 9) = 0
        BY <2>3 DEF N
      <3>3. N(pc[p1] > 14 + 2 * r) = N(pc'[p1] > 14 + 2 * r) /\ N(pc[p1] > 14 + 2 * r) \in Int
        BY <1>4, <2>2 DEF N
      <3> QED
        BY <1>1, <1>4, <1>5, <2>2, <2>3, <3>1, <3>2, <3>3
    <2>5. \A x \in Round : Now(x)' => x = r
      BY <1>2, <2>2, OneRound
    <2> QED
      BY <1>2, <2>2, <2>4, <2>5 DEF RoundValues
  <1>6. CASE s = "endcreate"
    <2> DEFINE r == Turn(p)
    <2>1. \/ Role(p) \in LeafRoles /\ pc[p] = 1
          \/ Role(p) = "curiousleaf" /\ pc[p] = 3
      BY <1>1, <1>6 DEF VAt
    <2>2. r \in Round /\ Now(r) /\ Role(p) # "p8root"
      BY <2>1, Current DEF P8Roles, LeafRoles
    <2> HIDE DEF r
    <2>3. /\ Reported(r)' = Reported(r) + 1
          /\ At("p8root", r)' > 9 <=> At("p8root", r) > 9
      <3>1. p # Root(r)
        BY <2>2, Names DEF Root
      <3> QED
        BY <1>1, <1>6, <2>2, <3>1, RoundCounts DEF r
    <2>4. /\ sem'["endp8"] = N(At("p8root", r)' > 9) - N(pc'[p1] > 14 + 2 * r)
          /\ sem'["endcreate"] = Reported(r)' - Taken(r)'
      <3>1. /\ sem["endp8"] = N(At("p8root", r) > 9) - N(pc[p1] > 14 + 2 * r)
            /\ sem["endcreate"] = Reported(r) - Taken(r)
        BY <2>2 DEF RoundValues
      <3>2. N(At("p8root", r)' > 9) = N(At("p8root", r) > 9)
        BY <2>3 DEF N
      <3>3. N(pc[p1] > 14 + 2 * r) = N(pc'[p1] > 14 + 2 * r)
        BY <1>4, <2>2 DEF N
      <3> QED
        BY <1>1, <1>4, <1>6, <2>2, <2>3, <3>1, <3>2, <3>3
    <2>5. \A x \in Round : Now(x)' => x = r
      BY <1>2, <2>2, OneRound
    <2> QED
      BY <1>2, <2>2, <2>4, <2>5 DEF RoundValues
  <1>7. CASE s # "endp8" /\ s # "endcreate"
    <2>1. ASSUME NEW r \in Round
          PROVE  Reported(r)' = Reported(r) /\ (At("p8root", r)' > 9 <=> At("p8root", r) > 9)
      <3>1. ~(p = Root(r) /\ pc[p] = 9)
        BY <1>1, <1>7, Names DEF VAt, Root, LeafRoles
      <3> QED
        BY <1>1, <1>3, <1>7, <3>1, RoundCounts
    <2> QED
      BY <1>1, <1>2, <1>4, <1>7, <2>1, RoundsSame
  <1> QED
    BY <1>5, <1>6, <1>7

\* A round is over with both semaphores as they were before it.
LEMMA RoundOver ==
  ASSUME IInv, wait[p1] = "nothing", NEW r \in Round, pc[p1] = 15 + 2 * r
  PROVE  sem["endp8"] = 0 /\ sem["endcreate"] = 0
  <1> USE DEF IInv
  <1>1. At("p8root", r) > 9 /\ At("p8root", r) \in 0..Ended
    BY RoundSignalled, OneRound DEF Past
  <1>2. Reported(r) = 4 /\ Taken(r) = 4
    BY <1>1, ReportedType DEF InOrder
  <1>3. Now(r) /\ pc[p1] > 14 + 2 * r
    BY DEF Now, Begun, Over, Round
  <1>4. /\ sem["endp8"] = N(At("p8root", r) > 9) - N(pc[p1] > 14 + 2 * r)
        /\ sem["endcreate"] = Reported(r) - Taken(r)
    BY <1>3 DEF RoundValues
  <1> QED
    BY <1>1, <1>2, <1>3, <1>4 DEF N

\* Nothing quiet is counted.
LEMMA QuietRounds ==
  ASSUME IInv, NEW p \in Proc, QuietStep(p)
  PROVE  RoundValues'
  <1> USE DEF IInv
  <1>1. QuietAt(p, pc[p]) /\ sem' = sem /\ (Moves(p) \/ UNCHANGED pc)
    BY DEF QuietStep
  <1>2. CASE UNCHANGED pc
    BY <1>1, <1>2, RoundsSame DEF Begun, Over, Reported, Taken, At
  <1>3. CASE Moves(p)
    <2>1. ASSUME NEW r \in Round
          PROVE  /\ Begun(r)' <=> Begun(r)
                 /\ Over(r)' <=> Over(r)
                 /\ Reported(r)' = Reported(r)
                 /\ Taken(r)' = Taken(r)
                 /\ At("p8root", r)' > 9 <=> At("p8root", r) > 9
                 /\ pc'[p1] > 14 + 2 * r <=> pc[p1] > 14 + 2 * r
      <3>1. ~VAt(p, pc[p], "endcreate") /\ ~PAt(p, pc[p], "endcreate")
        BY <1>1, OneThing
      <3>2. ~(p = Root(r) /\ pc[p] = 9) /\ ~(p = p1 /\ pc[p] = 14 + 2 * r)
        BY <1>1, Names DEF QuietAt, Root, Round
      <3>3. (Begun(r)' <=> Begun(r)) /\ (Over(r)' <=> Over(r))
        BY <1>1, <1>3, SameRound
      <3> QED
        BY <1>3, <3>1, <3>2, <3>3, RoundCounts
    <2> QED
      BY <1>1, <2>1, RoundsSame
  <1> QED
    BY <1>1, <1>2, <1>3

\* The places the values of a round are counted from.
LEMMA SameCountsOfRound ==
  ASSUME NEW r \in Round,
         At("leaf1", r)' > 1 <=> At("leaf1", r) > 1,
         At("leaf2", r)' > 1 <=> At("leaf2", r) > 1,
         At("leaf3", r)' > 1 <=> At("leaf3", r) > 1,
         At("curiousleaf", r)' > 3 <=> At("curiousleaf", r) > 3,
         \A k \in 4..7 : At("p8root", r)' > k <=> At("p8root", r) > k
  PROVE  Reported(r)' = Reported(r) /\ Taken(r)' = Taken(r)
  <1>1. Reported(r)' = Reported(r)
    BY DEF Reported, N
  <1>2. /\ At("p8root", r)' > 4 <=> At("p8root", r) > 4
        /\ At("p8root", r)' > 5 <=> At("p8root", r) > 5
        /\ At("p8root", r)' > 6 <=> At("p8root", r) > 6
        /\ At("p8root", r)' > 7 <=> At("p8root", r) > 7
    OBVIOUS
  <1>3. Taken(r)' = Taken(r)
    BY <1>2 DEF Taken, N
  <1> QED
    BY <1>1, <1>3

\* pc after a SYS2.
LEMMA AfterCreate ==
  ASSUME TypeOK, Created, CreatedIn8, NEW p \in Proc, NEW c \in Proc, CreateStep(p, c)
  PROVE  /\ pc[c] = 0 /\ p # c /\ pc[p] > 0
         /\ pc'[p] = pc[p] + 1 /\ pc'[c] = 1
         /\ \A x \in Proc : x # p /\ x # c => pc'[x] = pc[x]
         /\ \A x \in Proc, k \in Nat :
              k > 0 => (pc'[x] > k <=> (pc[x] > k \/ (x = p /\ pc[p] = k)))
  <1>1. CreateAt(p, pc[p], c) /\ pc' = [pc EXCEPT ![p] = pc[p] + 1, ![c] = 1]
    BY DEF CreateStep
  <1>2. pc[c] = 0 /\ p # c /\ pc[p] \in Nat /\ pc[p] > 0
    BY <1>1, Newborn, CreatePlaces
  <1>3. /\ pc'[p] = pc[p] + 1 /\ pc'[c] = 1
        /\ \A x \in Proc : x # p /\ x # c => pc'[x] = pc[x]
    BY <1>1, <1>2 DEF TypeOK
  <1>4. ASSUME NEW x \in Proc, NEW k \in Nat, k > 0
        PROVE  pc'[x] > k <=> (pc[x] > k \/ (x = p /\ pc[p] = k))
    <2>1. CASE x = p
      BY <1>2, <1>3, <2>1
    <2>2. CASE x = c
      BY <1>2, <1>3, <1>4, <2>2
    <2>3. CASE x # p /\ x # c
      BY <1>3, <2>3
    <2> QED
      BY <2>1, <2>2, <2>3
  <1> QED
    BY <1>2, <1>3, <1>4

\* A round begins with p8root, with nothing left of the one before.
LEMMA CreateRounds ==
  ASSUME IInv, NEW p \in Proc, NEW c \in Proc, CreateStep(p, c)
  PROVE  RoundValues'
  <1> USE DEF IInv
  <1>1. CreateAt(p, pc[p], c) /\ sem' = sem /\ wait[p] = "nothing"
    BY DEF CreateStep, Ready
  <1>2. \A x \in Proc, k \in Nat : k > 0 => (pc'[x] > k <=> (pc[x] > k \/ (x = p /\ pc[p] = k)))
    BY AfterCreate
  <1>3. ASSUME NEW r \in Round
        PROVE  /\ Member("leaf1", r) \in Proc /\ Member("leaf2", r) \in Proc
               /\ Member("leaf3", r) \in Proc /\ Member("curiousleaf", r) \in Proc
               /\ Member("p8root", r) \in Proc /\ Member("child1", r) \in Proc
               /\ Member("child2", r) \in Proc /\ Member("intermediate", r) \in Proc
               /\ p1 \in Proc
               /\ 13 + 2 * r \in Nat /\ 14 + 2 * r \in Nat /\ 15 + 2 * r \in Nat
               /\ 13 + 2 * r > 12
    BY Names DEF P8Roles, Round
  <1>4. ASSUME NEW r \in Round
        PROVE  /\ Reported(r)' = Reported(r) /\ Taken(r)' = Taken(r)
               /\ At("p8root", r)' > 9 <=> At("p8root", r) > 9
               /\ pc'[p1] > 14 + 2 * r <=> pc[p1] > 14 + 2 * r
    <2>1. /\ Role(p) \notin LeafRoles \cup {"curiousleaf"}
          /\ p = Root(r) => pc[p] \in 2..3
          /\ ~(p = p1 /\ pc[p] = 14 + 2 * r)
      BY <1>1, Names DEF CreateAt, LeafRoles, Root, Round
    <2>2. /\ p # Member("leaf1", r) /\ p # Member("leaf2", r) /\ p # Member("leaf3", r)
          /\ p # Member("curiousleaf", r)
      BY <2>1, Names DEF LeafRoles
    <2>3. /\ At("leaf1", r)' > 1 <=> At("leaf1", r) > 1
          /\ At("leaf2", r)' > 1 <=> At("leaf2", r) > 1
          /\ At("leaf3", r)' > 1 <=> At("leaf3", r) > 1
          /\ At("curiousleaf", r)' > 3 <=> At("curiousleaf", r) > 3
      BY <1>2, <1>3, <2>2 DEF At
    <2>4. /\ \A k \in 4..7 : At("p8root", r)' > k <=> At("p8root", r) > k
          /\ At("p8root", r)' > 9 <=> At("p8root", r) > 9
      BY <1>2, <1>3, <2>1 DEF At, Root
    <2>5. pc'[p1] > 14 + 2 * r <=> pc[p1] > 14 + 2 * r
      <3>1. 14 + 2 * r \in Nat /\ 14 + 2 * r > 0
        BY DEF Round
      <3> QED
        BY <1>3, <2>1, <3>1, AfterCreate
    <2> QED
      BY <2>3, <2>4, <2>5, SameCountsOfRound
  <1>5. CASE \A r \in Round : ~(p = p1 /\ pc[p] = 13 + 2 * r)
    <2>1. ASSUME NEW r \in Round PROVE (Begun(r)' <=> Begun(r)) /\ (Over(r)' <=> Over(r))
      <3>1. ~(p = p1 /\ pc[p] = 13 + 2 * r)
        BY <1>5
      <3>2. ~(p = p1 /\ pc[p] = 15 + 2 * r)
        <4>1. \A x \in Round : 15 + 2 * r # 13 + 2 * x => r = Rounds \/ x # r + 1
          BY RoundsAssumption DEF Round
        <4>2. r + 1 \in Round \/ r = Rounds
          BY RoundsAssumption DEF Round
        <4>3. r + 1 \in Round => ~(p = p1 /\ pc[p] = 13 + 2 * (r + 1))
          BY <1>5
        <4>4. 13 + 2 * (r + 1) = 15 + 2 * r
          BY DEF Round
        <4>5. ~(p = p1 /\ pc[p] = 15 + 2 * Rounds)
          BY <1>1, Names, RoundsAssumption DEF CreateAt, Round
        <4> QED
          BY <4>2, <4>3, <4>4, <4>5
      <3>3. /\ 13 + 2 * r \in Nat /\ 13 + 2 * r > 0
            /\ 15 + 2 * r \in Nat /\ 15 + 2 * r > 0 /\ p1 \in Proc
        BY Names DEF Round
      <3>4. Begun(r)' <=> Begun(r)
        BY <3>1, <3>3, AfterCreate DEF Begun
      <3>5. Over(r)' <=> Over(r)
        BY <3>2, <3>3, AfterCreate DEF Over
      <3> QED
        BY <3>4, <3>5
    <2> QED
      BY <1>1, <1>4, <2>1, RoundsSame
  <1>6. ASSUME NEW r \in Round, p = p1, pc[p] = 13 + 2 * r PROVE RoundValues'
    <2>1. sem["endp8"] = 0 /\ sem["endcreate"] = 0
      <3>1. CASE r = 1
        <4>1. \A x \in Round : ~Now(x)
          BY <1>6, <3>1 DEF Now, Begun, Round
        <4> QED
          BY <4>1 DEF RoundValues
      <3>2. CASE r # 1
        <4>1. r - 1 \in Round /\ pc[p1] = 15 + 2 * (r - 1)
          BY <1>6, <3>2, RoundsAssumption DEF Round
        <4> QED
          BY <1>1, <1>6, <4>1, RoundOver
      <3> QED
        BY <3>1, <3>2
    <2>2. pc'[p1] = 14 + 2 * r
      BY <1>6, AfterCreate DEF Round
    <2>3. \A x \in Round : Now(x)' => x = r
      BY <2>2 DEF Now, Begun, Over, Round
    <2>4. ~(At("p8root", r) > 0)
      BY <1>6 DEF CreatedIn8, CreatedIn, Begun, Round
    <2>5. Reported(r) = 0 /\ Taken(r) = 0
      <3>1. /\ At("leaf1", r) \in 0..Ended /\ At("leaf2", r) \in 0..Ended
            /\ At("leaf3", r) \in 0..Ended /\ At("curiousleaf", r) \in 0..Ended
            /\ At("p8root", r) \in 0..Ended /\ At("child1", r) \in 0..Ended
            /\ At("child2", r) \in 0..Ended /\ At("intermediate", r) \in 0..Ended
        BY <1>3 DEF TypeOK, At
      <3>2. At("child1", r) = 0 /\ At("child2", r) = 0
        BY <2>4, <3>1 DEF CreatedIn8, CreatedIn
      <3>3. At("intermediate", r) = 0 /\ At("leaf2", r) = 0 /\ At("leaf3", r) = 0
        BY <3>1, <3>2 DEF CreatedIn8, CreatedIn
      <3>4. At("curiousleaf", r) = 0 /\ At("leaf1", r) = 0
        BY <3>1, <3>3 DEF CreatedIn8, CreatedIn
      <3> QED
        BY <2>4, <3>1, <3>3, <3>4 DEF Reported, Taken, N
    <2>6. ~(At("p8root", r) > 9) /\ ~(pc'[p1] > 14 + 2 * r)
      BY <1>3, <2>2, <2>4 DEF TypeOK, At
    <2>7. /\ sem'["endp8"] = N(At("p8root", r)' > 9) - N(pc'[p1] > 14 + 2 * r)
          /\ sem'["endcreate"] = Reported(r)' - Taken(r)'
      <3>1. N(At("p8root", r)' > 9) = 0 /\ N(pc'[p1] > 14 + 2 * r) = 0
        BY <1>4, <2>6 DEF N
      <3> QED
        BY <1>1, <1>4, <2>1, <2>5, <3>1
    <2>8. sem'["endp8"] = 0 /\ sem'["endcreate"] = 0
      BY <1>1, <2>1
    <2> QED
      BY <2>3, <2>7, <2>8 DEF RoundValues
  <1> QED
    BY <1>5, <1>6

\* The rounds are over when p1 ends.
LEMMA EndRounds ==
  ASSUME IInv, NEW p \in Proc, EndStep(p)
  PROVE  RoundValues'
  <1> USE DEF IInv
  <1>1. /\ EndAt(p, pc[p]) /\ sem' = sem /\ wait[p] = "nothing"
        /\ pc'[p] = Ended /\ \A x \in Proc : x # p => pc'[x] = pc[x]
    BY DEF EndStep, Ready, TypeOK
  <1>2. Ended = 17 + 2 * Rounds /\ Rounds \in Nat /\ Rounds > 0
    BY Lengths, RoundsAssumption
  <1>3. CASE p # p1
    <2>1. ASSUME NEW r \in Round
          PROVE  /\ Begun(r)' <=> Begun(r)
                 /\ Over(r)' <=> Over(r)
                 /\ Reported(r)' = Reported(r)
                 /\ Taken(r)' = Taken(r)
                 /\ At("p8root", r)' > 9 <=> At("p8root", r) > 9
                 /\ pc'[p1] > 14 + 2 * r <=> pc[p1] > 14 + 2 * r
      <3>1. pc'[p1] = pc[p1]
        BY <1>1, <1>3, Names
      <3>2. /\ Member("leaf1", r) \in Proc /\ Member("leaf2", r) \in Proc
            /\ Member("leaf3", r) \in Proc /\ Member("curiousleaf", r) \in Proc
            /\ Member("p8root", r) \in Proc
        BY Names DEF P8Roles
      <3>3. /\ p = Member("leaf1", r) => pc[p] = 4
            /\ p = Member("leaf2", r) => pc[p] = 4
            /\ p = Member("leaf3", r) => pc[p] = 4
            /\ p = Member("curiousleaf", r) => pc[p] = 6
            /\ p = Member("p8root", r) => pc[p] = 10
        BY <1>1, Names DEF EndAt, LeafRoles
      <3>4. /\ At("leaf1", r)' > 1 <=> At("leaf1", r) > 1
            /\ At("leaf2", r)' > 1 <=> At("leaf2", r) > 1
            /\ At("leaf3", r)' > 1 <=> At("leaf3", r) > 1
            /\ At("curiousleaf", r)' > 3 <=> At("curiousleaf", r) > 3
        BY <1>1, <1>2, <3>2, <3>3 DEF At
      <3>5. /\ \A k \in 4..7 : At("p8root", r)' > k <=> At("p8root", r) > k
            /\ At("p8root", r)' > 9 <=> At("p8root", r) > 9
        <4>1. CASE p = Member("p8root", r)
          BY <1>1, <1>2, <3>3, <4>1 DEF At
        <4>2. CASE p # Member("p8root", r)
          BY <1>1, <3>2, <4>2 DEF At
        <4> QED
          BY <4>1, <4>2
      <3> QED
        BY <3>1, <3>4, <3>5, SameCountsOfRound DEF Begun, Over
    <2> QED
      BY <1>1, <2>1, RoundsSame
  <1>4. CASE p = p1
    <2>1. pc[p1] = 15 + 2 * Rounds
      BY <1>1, <1>4, Names DEF EndAt, LeafRoles
    <2>2. sem["endp8"] = 0 /\ sem["endcreate"] = 0
      <3>1. Rounds \in Round
        BY RoundsAssumption DEF Round
      <3> QED
        BY <1>1, <1>2, <1>4, <2>1, <3>1, RoundOver
    <2>3. \A r \in Round : ~Now(r)'
      BY <1>1, <1>2, <1>4 DEF Now, Over, Round
    <2> QED
      BY <1>1, <2>2, <2>3 DEF RoundValues
  <1> QED
    BY <1>3, <1>4

\* The values of endp8 and endcreate are still known from the round that is on.
LEMMA RoundValuesKept ==
  ASSUME IInv, [Next]_vars, ~refused'
  PROVE  RoundValues'
  <1> USE DEF IInv
  <1>1. ASSUME KillStep PROVE RoundValues'
    <2>1. \A x \in Proc : x # p4 /\ x # p4b => pc'[x] = pc[x]
      BY <1>1, Names DEF KillStep, TypeOK
    <2>2. ASSUME NEW r \in Round
          PROVE  /\ pc'[p1] = pc[p1] /\ At("p8root", r)' = At("p8root", r)
                 /\ At("leaf1", r)' = At("leaf1", r) /\ At("leaf2", r)' = At("leaf2", r)
                 /\ At("leaf3", r)' = At("leaf3", r)
                 /\ At("curiousleaf", r)' = At("curiousleaf", r)
      BY <2>1, Names DEF At, P8Roles
    <2>3. sem'["endp8"] = sem["endp8"] /\ sem'["endcreate"] = sem["endcreate"]
      <3>1. wait[p4b] \in Semaphore => wait[p4b] = "blkp4"
        <4>1. wait[p4b] \in Semaphore => PAt(p4b, pc[p4b] - 1, wait[p4b])
          BY Names DEF WaitsFor
        <4> QED
          BY <4>1, Names DEF PAt, LeafRoles
      <3>2. sem' = IF wait[p4b] \in Semaphore
                   THEN [sem EXCEPT ![wait[p4b]] = sem[wait[p4b]] + 1] ELSE sem
        BY <1>1 DEF KillStep, GiveBack
      <3> QED
        BY <3>1, <3>2 DEF TypeOK, Semaphore
    <2> QED
      BY <2>2, <2>3, RoundsSame DEF Begun, Over, Reported, Taken
  <1>2. ASSUME Still PROVE RoundValues'
    BY <1>2, RoundsSame DEF Still, Begun, Over, Reported, Taken, At
  <1> QED
    BY <1>1, <1>2, PRounds, VRounds, QuietRounds, CreateRounds, EndRounds, AnyForm

\* Who goes on does it in a step of its own, but for p4b when it is killed.
LEMMA WhoMoves ==
  ASSUME IInv, [Next]_vars, ~refused', NEW q \in Proc, pc'[q] # pc[q], pc[q] > 0
  PROVE  \/ \E s \in Semaphore : PStep(q, s) \/ VStep(q, s)
         \/ \E c \in Proc : CreateStep(q, c)
         \/ QuietStep(q) \/ EndStep(q)
         \/ KillStep /\ q \in {p4, p4b}
  <1> USE DEF IInv
  <1>1. ASSUME NEW p \in Proc, Moves(p) PROVE p = q
    BY <1>1, Threshold
  <1>2. ASSUME NEW p \in Proc, NEW c \in Proc, CreateStep(p, c) PROVE p = q
    <2>1. c # q
      BY <1>2, AfterCreate
    <2> QED
      BY <1>2, <2>1, AfterCreate
  <1>3. ASSUME NEW p \in Proc, EndStep(p) PROVE p = q
    BY <1>3 DEF EndStep, TypeOK
  <1>4. ASSUME KillStep PROVE q \in {p4, p4b}
    BY <1>4, Names DEF KillStep, TypeOK
  <1>5. ASSUME Still PROVE FALSE
    BY <1>5 DEF Still
  <1>6. ASSUME NEW p \in Proc, QuietStep(p) PROVE p = q
    BY <1>1, <1>6 DEF QuietStep
  <1>7. ASSUME NEW p \in Proc, NEW s \in Semaphore, PStep(p, s) \/ VStep(p, s) PROVE p = q
    BY <1>1, <1>7 DEF PStep, VStep
  <1> QED
    BY <1>2, <1>3, <1>4, <1>5, <1>6, <1>7, AnyForm

\* What has been said or handled stays so, and who is a tutor is one while it lives.
LEMMA Keeps ==
  ASSUME IInv, [Next]_vars, ~refused'
  PROVE  /\ p1p2synch => p1p2synch'
         /\ handlers \subseteq handlers'
         /\ \A x \in tutor : Alive(x) => x \in tutor'
  <1>1. ASSUME UNCHANGED <<p1p2synch, handlers, tutor>>
        PROVE  /\ p1p2synch => p1p2synch'
               /\ handlers \subseteq handlers' /\ tutor \subseteq tutor'
    BY <1>1
  <1>2. ASSUME NEW p \in Proc, QuietStep(p)
        PROVE  /\ p1p2synch => p1p2synch'
               /\ handlers \subseteq handlers' /\ tutor \subseteq tutor'
    BY <1>2 DEF QuietStep
  <1>3. ASSUME NEW p \in Proc, NEW c \in Proc, CreateStep(p, c)
        PROVE  /\ UNCHANGED <<p1p2synch, handlers>>
               /\ \A x \in tutor : Alive(x) => x \in tutor'
    <2>1. PICK old \in Proc : (old = c \/ pc[old] = Ended) /\ tutor' = tutor \ {old}
      BY <1>3 DEF CreateStep
    <2>2. pc[c] = 0
      BY <1>3, Newborn DEF CreateStep, IInv
    <2>3. ~Alive(old)
      BY <2>1, <2>2, Lengths DEF Alive
    <2> QED
      BY <1>3, <2>1, <2>3 DEF CreateStep
  <1>4. \/ \E p \in Proc : QuietStep(p)
        \/ \E p \in Proc : \E c \in Proc : CreateStep(p, c)
        \/ UNCHANGED <<p1p2synch, handlers, tutor>>
    BY AnyForm DEF PStep, VStep, EndStep, KillStep, Still
  <1> QED
    BY <1>1, <1>2, <1>3, <1>4

\* Who moves from a place where it does something quiet has done it.
LEMMA Quietly ==
  ASSUME IInv, [Next]_vars, ~refused', NEW q \in Proc, NEW k \in Nat, k > 0, QuietAt(q, k), q # p4b,
         pc'[q] > k, ~(pc[q] > k), pc[q] > 0
  PROVE  QuietStep(q) /\ pc[q] = k
  <1>1. ~EndAt(q, pc[q])
    <2>1. ASSUME EndAt(q, pc[q]) PROVE FALSE
      <3>1. pc[q] > k
        BY <2>1, RoundsAssumption DEF QuietAt, EndAt, LeafRoles
      <3> QED
        BY <3>1
    <2> QED
      BY <2>1
  <1>2. pc[q] = k
    BY <1>1, Forward
  <1>3. pc'[q] # pc[q]
    BY <1>2
  <1>4. QuietAt(q, pc[q]) /\ ~(q = p4 /\ pc[q] = 7)
    BY <1>2, Names DEF QuietAt
  <1>5. ASSUME NEW s \in Semaphore, PStep(q, s) \/ VStep(q, s) PROVE FALSE
    BY <1>4, <1>5, OneThing DEF PStep, VStep
  <1>6. ASSUME NEW c \in Proc, CreateStep(q, c) PROVE FALSE
    BY <1>4, <1>6, CreatePlaces DEF CreateStep
  <1>7. ASSUME EndStep(q) PROVE FALSE
    BY <1>1, <1>7 DEF EndStep
  <1>8. ASSUME KillStep, q = p4 PROVE FALSE
    BY <1>4, <1>8 DEF KillStep
  <1> QED
    BY <1>2, <1>3, <1>5, <1>6, <1>7, <1>8, WhoMoves

\* p2 has said that it has run, and p5 has set its handlers, when they are behind it.
LEMMA DoneKept ==
  ASSUME IInv, [Next]_vars, ~refused'
  PROVE  Done'
  <1> USE DEF IInv
  <1>0. /\ p2 \in Proc /\ p5 \in Proc /\ p2 # p4b /\ p5 # p4b
        /\ QuietAt(p2, 6) /\ QuietAt(p5, 1) /\ QuietAt(p5, 2) /\ QuietAt(p5, 3)
        /\ pc[p2] \in 0..Ended /\ pc[p5] \in 0..Ended
    BY Names DEF QuietAt, TypeOK
  <1>1. ASSUME pc'[p2] > 6 PROVE p1p2synch'
    <2>1. CASE pc[p2] > 6
      BY <2>1, Keeps DEF Done
    <2>2. CASE ~(pc[p2] > 6)
      <3>1. pc[p2] > 0
        BY <1>0, <1>1, <2>2, PcAfter, Names, Lengths DEF EndAt, LeafRoles
      <3>2. QuietStep(p2) /\ pc[p2] = 6
        BY <1>0, <1>1, <2>2, <3>1, Quietly
      <3> QED
        BY <3>2, Names DEF QuietStep
    <2> QED
      BY <2>1, <2>2
  <1>2. ASSUME NEW k \in 1..3, pc'[p5] > k, ~(pc[p5] > k)
        PROVE  QuietStep(p5) /\ pc[p5] = k
    <2>1. pc[p5] > 0
      BY <1>0, <1>2, PcAfter, Names DEF EndAt, LeafRoles
    <2>2. QuietAt(p5, k)
      BY <1>2, Names DEF QuietAt
    <2> QED
      BY <1>0, <1>2, <2>1, <2>2, Quietly
  <1>3. pc'[p5] > 1 => "PGMTRAP" \in handlers'
    BY <1>2, Keeps, Names DEF Done, QuietStep
  <1>4. pc'[p5] > 2 => "TLB" \in handlers'
    BY <1>2, Keeps, Names DEF Done, QuietStep
  <1>5. pc'[p5] > 3 => "SYSBK" \in handlers'
    BY <1>2, Keeps, Names DEF Done, QuietStep
  <1> QED
    BY <1>1, <1>3, <1>4, <1>5 DEF Done

\* Who has got behind its first place has lived before the step.
LEMMA Lived ==
  ASSUME IInv, [Next]_vars, ~refused', NEW q \in Proc, pc'[q] > 1
  PROVE  pc[q] > 0
  <1>1. pc[q] \in 0..Ended
    BY Forward
  <1>2. pc[q] # 0
    BY <1>1, PcAfter, RoundsAssumption DEF EndAt
  <1> QED
    BY <1>1, <1>2

\* Who begins to live is created in this step.
LEMMA Appears ==
  ASSUME IInv, [Next]_vars, ~refused', NEW q \in Proc, pc[q] = 0, pc'[q] # 0
  PROVE  \E p \in Proc : CreateStep(p, q) /\ parent'[q] = p /\ pc'[q] = 1
  <1> USE DEF IInv
  <1>1. ASSUME NEW p \in Proc, Ready(p) PROVE pc[p] > 0 /\ p # q
    BY <1>1, Lengths, RoundsAssumption DEF Ready, Alive
  <1>2. ASSUME NEW p \in Proc, Ready(p), Moves(p) PROVE FALSE
    BY <1>1, <1>2, Threshold
  <1>3. ASSUME NEW p \in Proc, NEW c \in Proc, CreateStep(p, c) PROVE c = q
    <2>1. Ready(p)
      BY <1>3 DEF CreateStep
    <2> QED
      BY <1>1, <1>3, <2>1, AfterCreate
  <1>4. ASSUME NEW p \in Proc, EndStep(p) PROVE FALSE
    BY <1>1, <1>4 DEF EndStep, TypeOK
  <1>5. ASSUME KillStep PROVE FALSE
    BY <1>1, <1>5, Names DEF KillStep, TypeOK
  <1>6. ASSUME NEW p \in Proc, NEW s \in Semaphore, PStep(p, s) \/ VStep(p, s) PROVE FALSE
    BY <1>2, <1>6 DEF PStep, VStep
  <1>7. ASSUME NEW p \in Proc, QuietStep(p) PROVE FALSE
    BY <1>2, <1>7 DEF QuietStep
  <1>8. ~Still
    BY DEF Still
  <1>9. \E p \in Proc : CreateStep(p, q)
    BY <1>3, <1>4, <1>5, <1>6, <1>7, <1>8, AnyForm
  <1>10. PICK p \in Proc : CreateStep(p, q)
    BY <1>9
  <1>11. parent'[q] = p /\ pc'[q] = 1
    BY <1>10, AfterCreate DEF CreateStep, TypeOK
  <1> QED
    BY <1>10, <1>11

\* Who gets behind a SYS2 has created the child.
LEMMA Creates ==
  ASSUME IInv, [Next]_vars, ~refused', NEW q \in Proc, NEW k \in Nat, NEW c \in Proc, CreateAt(q, k, c),
         pc'[q] > k, ~(pc[q] > k)
  PROVE  CreateStep(q, c) /\ pc[q] = k
  <1> USE DEF IInv
  <1>1. /\ k > 0 /\ q # p4b /\ pc[q] \in 0..Ended /\ pc'[q] \in 0..Ended /\ Ended \in Nat
        /\ \A j : EndAt(q, j) => j \in Nat /\ j > k
    BY CreatePlaces, Forward, Lengths, RoundsAssumption, Names
  <1>2. pc[q] > 0
    BY <1>1, Lived
  <1>3. ~EndAt(q, pc[q])
    BY <1>1
  <1>4. pc[q] = k /\ pc'[q] # pc[q]
    BY <1>1, <1>3, Forward
  <1>5. /\ \A s : ~PAt(q, pc[q], s) /\ ~VAt(q, pc[q], s)
        /\ ~QuietAt(q, pc[q]) /\ ~(q = p4 /\ pc[q] = 7)
    BY <1>4, CreatePlaces, Names
  <1>6. \A d \in Proc : CreateAt(q, pc[q], d) => d = c
    BY <1>4, OnePlace
  <1>7. ~KillStep \/ q \notin {p4, p4b}
    BY <1>1, <1>5 DEF KillStep
  <1>8. \E d \in Proc : CreateStep(q, d)
    BY <1>2, <1>3, <1>4, <1>5, <1>7, WhoMoves DEF PStep, VStep, QuietStep, EndStep
  <1>9. PICK d \in Proc : CreateStep(q, d)
    BY <1>8
  <1>10. CreateAt(q, pc[q], d)
    BY <1>9 DEF CreateStep
  <1> QED
    BY <1>4, <1>6, <1>9, <1>10

\* Who has ended, and was not killed, has done so itself.
LEMMA Ends ==
  ASSUME IInv, [Next]_vars, ~refused', NEW q \in Proc, pc'[q] = Ended, pc[q] # Ended, q # p4b
  PROVE  EndStep(q)
  <1> USE DEF IInv
  <1>1. EndAt(q, pc[q]) /\ pc[q] \in 0..Ended /\ Ended \in Nat /\ Ended > 18
    BY PcAfter, Forward, Lengths, RoundsAssumption
  <1>2. pc[q] > 0
    BY <1>1, Lived
  <1>3. ASSUME NEW s PROVE ~PAt(q, pc[q], s) /\ ~VAt(q, pc[q], s) /\ ~QuietAt(q, pc[q])
    BY <1>1, OneThing
  <1>4. ASSUME NEW c \in Proc, CreateStep(q, c) PROVE FALSE
    <2>1. \A j : EndAt(q, j) => j \in Nat /\ j > pc[q]
      BY <1>4, CreatePlaces DEF CreateStep
    <2> QED
      BY <1>1, <2>1
  <1>5. ASSUME KillStep, q = p4 PROVE FALSE
    BY <1>1, <1>5, Names DEF KillStep, TypeOK
  <1> QED
    BY <1>2, <1>3, <1>4, <1>5, WhoMoves DEF PStep, VStep, QuietStep

\* Whoever ends.
LEMMA WhoEnds ==
  ASSUME IInv, [Next]_vars, ~refused', NEW q \in Proc, pc'[q] = Ended, pc[q] # Ended
  PROVE  EndStep(q) \/ (KillStep /\ q = p4b)
  <1>1. CASE q # p4b
    BY <1>1, Ends
  <1>2. CASE q = p4b
    <2>1. ~EndAt(p4b, pc[p4b]) /\ pc[p4b] # 0
      <3>1. pc'[p4b] > 1
        BY <1>2, Lengths
      <3> QED
        BY <1>2, <3>1, Lived, Names DEF EndAt, LeafRoles
    <2>2. pc[p4b] > 0
      BY <1>2, <2>1 DEF IInv, TypeOK
    <2>3. ASSUME Moves(q) PROVE FALSE
      <3>1. pc'[q] = pc[q] + 1
        BY <2>3, Threshold DEF IInv
      <3> QED
        BY <1>2, <2>1, <2>2, <3>1, PcAfter, Lengths, RoundsAssumption
    <2>4. ASSUME NEW c \in Proc, CreateStep(q, c) PROVE FALSE
      BY <1>2, <2>4, CreatePlaces, Names DEF CreateStep
    <2> QED
      BY <1>2, <2>1, <2>2, <2>3, <2>4, WhoMoves DEF PStep, VStep, QuietStep, EndStep
  <1> QED
    BY <1>1, <1>2

\* What a step may do to a parent: q is created, or ends, its parent's PCB, which
\* nobody had, is given to somebody, or its parent ends and q is adopted.
LEMMA ParentAfter ==
  ASSUME IInv, [Next]_vars, ~refused', NEW q \in Proc
  PROVE  \/ parent'[q] = parent[q]
         \/ \E p \in Proc : CreateStep(p, q) /\ parent'[q] = p
         \/ \E p, c \in Proc : /\ CreateStep(p, c) /\ parent'[q] = c
                               /\ parent[q] \in Proc /\ ~Alive(parent[q])
         \/ parent'[q] = NULL /\ pc'[q] = Ended
         \/ \E p \in Proc : /\ EndStep(p) \/ (KillStep /\ p = p4b)
                            /\ parent[q] = p /\ Alive(q) /\ parent'[q] \in Proc
                            /\ parent[p] \in tutor => parent'[q] = parent[p]
  <1> USE DEF IInv
  <1>1. /\ parent \in [Proc -> Proc \cup {NULL}] /\ pc \in [Proc -> 0..Ended]
        /\ p4b \in Proc /\ p4 \in Proc /\ p4 # p4b /\ Ended \in Nat /\ Ended > 18
    BY Names, Lengths, RoundsAssumption DEF TypeOK
  <1> DEFINE Renamed(c) == /\ parent'[q] = c
                           /\ parent[q] \in Proc /\ ~Alive(parent[q])
             Adopted(p) == /\ parent[q] = p /\ Alive(q) /\ parent'[q] \in Proc
                           /\ parent[p] \in tutor => parent'[q] = parent[p]
  <1>2. ASSUME NEW p \in Proc, NEW c \in Proc, CreateStep(p, c)
        PROVE  parent'[q] = parent[q] \/ (c = q /\ parent'[q] = p) \/ Renamed(c)
    <2>1. PICK old \in Proc :
            /\ old = c \/ pc[old] = Ended
            /\ parent' = [x \in Proc |-> IF x = c THEN p
                                         ELSE IF parent[x] = old THEN c ELSE parent[x]]
      BY <1>2 DEF CreateStep
    <2>2. ~Alive(old)
      BY <1>1, <1>2, <2>1, AfterCreate DEF Alive
    <2> QED
      BY <2>1, <2>2
  <1>3. ASSUME NEW p \in Proc, Adopt(p), pc'[p] = Ended
        PROVE  \/ parent'[q] = parent[q]
               \/ parent'[q] = NULL /\ pc'[q] = Ended
               \/ Adopted(p)
    <2>1. PICK heir \in Children(p) \cup {NULL}, adopter \in Proc :
            /\ parent[p] \in tutor => adopter = parent[p]
            /\ parent' = [c \in Proc |-> IF c = p THEN NULL
                                         ELSE IF c = heir THEN adopter ELSE parent[c]]
      BY <1>3 DEF Adopt
    <2>2. CASE q = p
      BY <1>3, <2>1, <2>2
    <2>3. CASE q # p /\ q = heir
      <3>1. Alive(q) /\ parent[q] = p
        BY <2>3, Names DEF Children
      <3> QED
        BY <2>1, <2>3, <3>1
    <2>4. CASE q # p /\ q # heir
      BY <2>1, <2>4
    <2> QED
      BY <2>2, <2>3, <2>4
  <1>4. ASSUME NEW p \in Proc, EndStep(p) PROVE Adopt(p) /\ pc'[p] = Ended
    BY <1>1, <1>4 DEF EndStep
  <1>5. ASSUME KillStep PROVE Adopt(p4b) /\ pc'[p4b] = Ended
    BY <1>1, <1>5 DEF KillStep
  <1>6. \/ \E p \in Proc : \/ \E c \in Proc : CreateStep(p, c)
                           \/ EndStep(p)
        \/ KillStep
        \/ UNCHANGED parent
    BY AnyForm DEF PStep, VStep, QuietStep, Still
  <1>7. CASE \E p \in Proc : \E c \in Proc : CreateStep(p, c)
    BY <1>2, <1>7
  <1>8. CASE \E p \in Proc : EndStep(p)
    BY <1>3, <1>4, <1>8
  <1>9. CASE KillStep
    BY <1>1, <1>3, <1>5, <1>9
  <1> QED
    BY <1>6, <1>7, <1>8, <1>9

\* Who lives keeps a parent that lives.
LEMMA ParentKept ==
  ASSUME IInv, [Next]_vars, ~refused', NEW q \in Proc, pc[q] > 0, pc'[q] # Ended,
         parent[q] \in Proc, Alive(parent[q]), pc'[parent[q]] # Ended
  PROVE  parent'[q] = parent[q]
  <1>1. ASSUME NEW p \in Proc, CreateStep(p, q) PROVE FALSE
    BY <1>1, AfterCreate DEF IInv
  <1>2. ASSUME NEW p \in Proc, EndStep(p) \/ (KillStep /\ p = p4b), parent[q] = p PROVE FALSE
    BY <1>2, Names DEF EndStep, KillStep, IInv, TypeOK
  <1> QED
    BY <1>1, <1>2, ParentAfter

\* What a step may do to a pid that is kept: its process is created, or its PCB,
\* which nobody had, is given to somebody.
LEMMA PidsAfter ==
  ASSUME IInv, [Next]_vars, ~refused', NEW role \in {"p4", "child1", "intermediate"}
  PROVE  \/ pids'[role] = pids[role]
         \/ \E p, c \in Proc : CreateStep(p, c) /\ Role(c) = role /\ pids'[role] = c
         \/ \E p, c \in Proc : /\ CreateStep(p, c) /\ pids'[role] = c
                               /\ pids[role] \in Proc /\ ~Alive(pids[role])
  <1>1. DOMAIN pids = {"p4", "child1", "intermediate"} /\ Ended \in Nat
    BY Lengths, RoundsAssumption DEF IInv, TypeOK
  <1>2. ASSUME NEW p \in Proc, NEW c \in Proc, CreateStep(p, c)
        PROVE  \/ pids'[role] = pids[role]
               \/ Role(c) = role /\ pids'[role] = c
               \/ (pids'[role] = c /\ pids[role] \in Proc /\ ~Alive(pids[role]))
    <2>1. PICK old \in Proc :
            /\ old = c \/ pc[old] = Ended
            /\ pids' = [x \in DOMAIN pids |-> IF x = Role(c) THEN c
                                              ELSE IF pids[x] = old THEN c ELSE pids[x]]
      BY <1>2 DEF CreateStep
    <2>2. pc[c] = 0
      BY <1>2, AfterCreate DEF IInv
    <2>3. ~Alive(old)
      BY <1>1, <2>1, <2>2 DEF Alive
    <2> QED
      BY <1>1, <2>1, <2>3
  <1>3. (\E p, c \in Proc : CreateStep(p, c)) \/ UNCHANGED pids
    BY AnyForm DEF PStep, VStep, QuietStep, EndStep, KillStep, Still
  <1> QED
    BY <1>2, <1>3

\* Who is not alive still has no parent.
LEMMA RootlessKept ==
  ASSUME IInv, [Next]_vars, ~refused'
  PROVE  Rootless'
  <1> USE DEF IInv
  <1>0. Ended \in Nat /\ Ended > 18 /\ Ended' = Ended
    BY Lengths, RoundsAssumption DEF Ended
  <1>1. ASSUME NEW q \in Proc, parent[q] = NULL, parent'[q] # NULL
        PROVE  \E p \in Proc : CreateStep(p, q)
    BY <1>1, ParentAfter, Names
  <1>2. ASSUME NEW q \in Proc, pc'[q] \in {0, Ended} PROVE parent'[q] = NULL
    <2>1. ASSUME NEW p \in Proc, CreateStep(p, q) PROVE FALSE
      BY <1>0, <1>2, <2>1, AfterCreate
    <2>2. CASE parent[q] = NULL
      BY <1>1, <2>1, <2>2
    <2>3. CASE parent[q] # NULL
      <3>1. Alive(q) /\ pc[q] # Ended /\ pc[q] > 0
        BY <1>0, <2>3 DEF Rootless, Alive
      <3>2. pc'[q] = Ended
        BY <1>0, <1>2, <3>1, Forward
      <3>3. EndStep(q) \/ (KillStep /\ q = p4b)
        BY <1>0, <3>1, <3>2, WhoEnds
      <3>4. Adopt(q)
        BY <3>3 DEF EndStep, KillStep
      <3> QED
        BY <3>4 DEF Adopt
    <2> QED
      BY <2>2, <2>3
  <1>3. parent'[p1] = NULL
    <2>1. parent[p1] = NULL /\ p1 \in Proc
      BY Names DEF Rootless
    <2>2. ASSUME NEW p \in Proc, CreateStep(p, p1) PROVE FALSE
      BY <2>2, AfterCreate, Names DEF Created
    <2> QED
      BY <1>1, <2>1, <2>2
  <1>4. ASSUME NEW q \in Proc, ~(Alive(q)') PROVE pc'[q] \in {0, Ended}
    <2>1. pc'[q] \in 0..Ended
      BY Forward
    <2> QED
      BY <1>0, <1>4, <2>1 DEF Alive
  <1> QED
    BY <1>2, <1>3, <1>4 DEF Rootless

\* p4b stays at its P until p4 kills it: p5 gives blkp4 back after endp4.
LEMMA P4FactsKept ==
  ASSUME IInv, [Next]_vars, ~refused'
  PROVE  P4Facts'
  <1> USE DEF IInv
  <1>0. /\ p1 \in Proc /\ p4 \in Proc /\ p4b \in Proc /\ p5 \in Proc /\ p4 # p4b
        /\ pc[p1] \in 0..Ended /\ pc[p4] \in 0..Ended /\ pc[p4b] \in 0..Ended
        /\ pc[p5] \in 0..Ended /\ Ended \in Nat /\ Ended > 18 /\ Ended' = Ended
    <2>1. Ended \in Nat /\ Ended > 18
      BY Lengths, RoundsAssumption
    <2>2. Ended' = Ended
      BY DEF Ended
    <2> QED
      BY <2>1, <2>2, Names DEF TypeOK
  <1>1. ASSUME pc'[p4b] = Ended PROVE pc'[p4] > 7
    <2>1. CASE pc[p4b] = Ended
      <3>1. pc[p4] > 7
        BY <2>1 DEF P4Facts
      <3> QED
        BY <1>0, <3>1, Forward
    <2>2. CASE pc[p4b] # Ended
      <3>1. ~EndAt(p4b, pc[p4b])
        BY Names DEF EndAt, LeafRoles
      <3>2. pc'[p4] = 8
        BY <1>0, <1>1, <2>2, <3>1, PcAfter
      <3> QED
        BY <3>2
    <2> QED
      BY <2>1, <2>2
  <1>2. ASSUME pc'[p4] > 7 PROVE pc'[p4b] = Ended
    <2>1. CASE pc[p4] > 7
      <3>1. pc[p4b] = Ended
        BY <2>1 DEF P4Facts
      <3> QED
        BY <1>0, <3>1, Forward
    <2>2. CASE ~(pc[p4] > 7)
      <3>1. ~EndAt(p4, pc[p4])
        BY <2>2, Names DEF EndAt, LeafRoles
      <3>2. pc[p4] = 7 /\ pc'[p4] # pc[p4]
        BY <1>0, <1>2, <2>2, <3>1, Forward
      <3>3. /\ ~QuietAt(p4, 7) /\ \A s : ~PAt(p4, 7, s) /\ ~VAt(p4, 7, s)
            /\ \A c : ~CreateAt(p4, 7, c)
        BY Names DEF QuietAt, PAt, VAt, CreateAt, LeafRoles
      <3>4. KillStep
        BY <1>0, <3>1, <3>2, <3>3, WhoMoves DEF PStep, VStep, CreateStep, QuietStep, EndStep
      <3> QED
        BY <1>0, <3>4 DEF KillStep, TypeOK
    <2> QED
      BY <2>1, <2>2
  <1>3. ASSUME pc'[p4b] > 0, pc'[p4] < 8 PROVE parent'[p4b] = p4
    <2>1. pc[p4] < 8 /\ pc'[p4b] # Ended /\ pc'[p4] # Ended
      BY <1>0, <1>1, <1>3, Forward
    <2>2. CASE pc[p4b] > 0
      <3>1. parent[p4b] = p4 /\ pc[p4] > 5
        BY <2>1, <2>2 DEF P4Facts, Created
      <3>2. Alive(p4)
        BY <1>0, <2>1, <3>1 DEF Alive
      <3> QED
        BY <1>0, <2>1, <2>2, <3>1, <3>2, ParentKept
    <2>3. CASE ~(pc[p4b] > 0)
      <3>1. PICK p \in Proc : CreateStep(p, p4b) /\ parent'[p4b] = p
        BY <1>0, <1>3, <2>3, Appears
      <3> QED
        BY <3>1, Roles, Names DEF CreateStep, CreateAt
    <2> QED
      BY <2>2, <2>3
  <1>4. ASSUME pc'[p4] \in 1..9 PROVE pids'["p4"] = p4
    <2>1. ASSUME NEW c \in Proc, Role(c) = "p4" PROVE c = p4
      BY <2>1, Roles
    <2>2. CASE pc[p4] > 0
      <3>1. pc[p4] \in 1..9
        BY <1>0, <1>4, <2>2, Forward
      <3>2. pids["p4"] = p4 /\ Alive(p4)
        BY <1>0, <3>1 DEF P4Facts, Alive
      <3> QED
        BY <2>1, <3>2, PidsAfter
    <2>3. CASE ~(pc[p4] > 0)
      <3>1. PICK p \in Proc : CreateStep(p, p4)
        BY <1>0, <1>4, <2>3, Appears
      <3> QED
        BY <3>1, Names DEF CreateStep, TypeOK
    <2> QED
      BY <2>2, <2>3
  <1>5. ASSUME pc'[p4b] = 4 PROVE wait'[p4b] = "blkp4"
    <2>1. pc[p4b] \in 1..4 /\ pc[p4] > 5 /\ ~(pc[p4] > 8) /\ ~KillStep
      <3>1. pc[p4b] # 0
        BY <1>0, <1>5, PcAfter
      <3>2. pc[p4b] <= 4
        BY <1>0, <1>5, Forward
      <3>3. ~(pc[p4] > 8)
        BY <1>0, <3>2 DEF P4Facts
      <3>4. pc[p4] > 5
        BY <1>0, <3>1 DEF Created
      <3>5. ~KillStep
        BY <1>0, <1>5 DEF KillStep, TypeOK
      <3> QED
        BY <1>0, <3>1, <3>2, <3>3, <3>4, <3>5
    <2>2. ~(pc[p5] > 9) /\ ~(pc[p5] = 9 /\ wait[p5] = "nothing")
      BY <1>0, <2>1, Signalled DEF Past
    <2>3. CASE pc[p4b] = 4
      <3>1. wait[p4b] = "blkp4" /\ "blkp4" \in Semaphore
        BY <2>3 DEF P4Facts, Semaphore
      <3>2. ASSUME NEW p \in Proc, NEW s \in Semaphore, PStep(p, s) PROVE wait'[p4b] = wait[p4b]
        BY <1>0, <3>1, <3>2 DEF PStep, Ready, TypeOK
      <3>3. ASSUME NEW p \in Proc, NEW s \in Semaphore, VStep(p, s) PROVE wait'[p4b] = wait[p4b]
        <4>1. s # "blkp4"
          <5>1. ASSUME s = "blkp4" PROVE FALSE
            <6>1. p = p5 /\ pc[p] = 9 /\ wait[p] = "nothing"
              BY <3>3, <5>1, Roles DEF VStep, VAt, Ready
            <6> QED
              BY <2>2, <6>1
          <5> QED
            BY <5>1
        <4>2. Wake(s)
          BY <3>3 DEF VStep
        <4> QED
          BY <1>0, <3>1, <4>1, <4>2 DEF Wake, WakeOne, Waiting, TypeOK
      <3>4. ASSUME NEW p \in Proc, QuietStep(p) PROVE wait'[p4b] = wait[p4b]
        BY <1>0, <3>1, <3>4 DEF QuietStep, Ready, TypeOK
      <3>5. ASSUME Still PROVE wait'[p4b] = wait[p4b]
        BY <1>0, <3>1, <3>5 DEF Still
      <3>6. wait'[p4b] = wait[p4b]
        BY <2>1, <3>2, <3>3, <3>4, <3>5, AnyForm DEF CreateStep, EndStep
      <3> QED
        BY <3>1, <3>6
    <2>4. CASE pc[p4b] # 4
      <3>1. pc[p4b] = 3 /\ pc'[p4b] # pc[p4b] /\ pc[p4b] > 0
        BY <1>0, <1>5, <2>1, <2>4, PcAfter
      <3>2. /\ ~QuietAt(p4b, 3) /\ ~EndAt(p4b, 3)
            /\ \A s : ~VAt(p4b, 3, s) /\ (PAt(p4b, 3, s) => s = "blkp4")
            /\ \A c : ~CreateAt(p4b, 3, c)
        BY Names DEF QuietAt, PAt, VAt, CreateAt, EndAt, LeafRoles
      <3>3. PStep(p4b, "blkp4")
        BY <1>0, <2>1, <3>1, <3>2, WhoMoves DEF PStep, VStep, CreateStep, QuietStep, EndStep
      <3>4. sem["blkp4"] < 1
        BY <1>0, <2>1, <2>2, <3>1 DEF Values, N
      <3> QED
        BY <1>0, <3>3, <3>4 DEF PStep, TypeOK
    <2> QED
      BY <2>3, <2>4
  <1> QED
    BY <1>0, <1>1, <1>2, <1>3, <1>4, <1>5 DEF P4Facts

\* The places between a P and a V of blkp8.
InsideAt(p, i) ==
  \/ Role(p) = "p8root" /\ i \in 2..8
  \/ Role(p) \in {"child1", "child2"} /\ i = 4
  \/ Role(p) \in LeafRoles /\ i = 3
  \/ Role(p) = "curiousleaf" /\ i = 5

\* Only a P and a V of blkp8 stand at the edge of those places.
LEMMA InsidePlaces ==
  ASSUME NEW p \in Proc, NEW i \in Nat, NEW s
  PROVE  /\ PAt(p, i, s) /\ s = "blkp8" => ~InsideAt(p, i) /\ InsideAt(p, i + 1)
         /\ VAt(p, i, s) /\ s = "blkp8" => InsideAt(p, i) /\ ~InsideAt(p, i + 1)
         /\ PAt(p, i, s) /\ s # "blkp8" => (InsideAt(p, i) <=> InsideAt(p, i + 1))
         /\ VAt(p, i, s) /\ s # "blkp8" => (InsideAt(p, i) <=> InsideAt(p, i + 1))
         /\ QuietAt(p, i) => (InsideAt(p, i) <=> InsideAt(p, i + 1))
         /\ (\E c : CreateAt(p, i, c)) => (InsideAt(p, i) <=> InsideAt(p, i + 1))
         /\ ~InsideAt(p, 0) /\ ~InsideAt(p, 1)
         /\ EndAt(p, i) => ~InsideAt(p, i)
         /\ ~InsideAt(p, Ended)
  <1>1. /\ PAt(p, i, s) /\ s = "blkp8" => ~InsideAt(p, i) /\ InsideAt(p, i + 1)
        /\ PAt(p, i, s) /\ s # "blkp8" => (InsideAt(p, i) <=> InsideAt(p, i + 1))
    BY DEF PAt, InsideAt, LeafRoles
  <1>2. /\ VAt(p, i, s) /\ s = "blkp8" => InsideAt(p, i) /\ ~InsideAt(p, i + 1)
        /\ VAt(p, i, s) /\ s # "blkp8" => (InsideAt(p, i) <=> InsideAt(p, i + 1))
    BY DEF VAt, InsideAt, LeafRoles
  <1>3. QuietAt(p, i) => (InsideAt(p, i) <=> InsideAt(p, i + 1))
    BY DEF QuietAt, InsideAt, LeafRoles
  <1>4. (\E c : CreateAt(p, i, c)) => (InsideAt(p, i) <=> InsideAt(p, i + 1))
    BY DEF CreateAt, InsideAt, LeafRoles
  <1>5. ~InsideAt(p, 0) /\ ~InsideAt(p, 1)
    BY DEF InsideAt
  <1>6. EndAt(p, i) => ~InsideAt(p, i)
    BY DEF EndAt, InsideAt, LeafRoles
  <1>7. ~InsideAt(p, Ended)
    BY Lengths DEF InsideAt
  <1> QED
    BY <1>1, <1>2, <1>3, <1>4, <1>5, <1>6, <1>7

\* Nobody gets in or out.
LEMMA MutexSame ==
  ASSUME Mutex, \A q \in Proc : Inside(q)' <=> Inside(q), sem'["blkp8"] = sem["blkp8"]
  PROVE  Mutex'
  <1>1. \A p, q \in Proc : Inside(p)' /\ Inside(q)' => p = q
    BY DEF Mutex
  <1>2. sem'["blkp8"] <= 1
    BY DEF Mutex
  <1>3. sem'["blkp8"] = 1 <=> \A p \in Proc : ~Inside(p)'
    BY DEF Mutex
  <1> QED
    BY <1>1, <1>2, <1>3 DEF Mutex

\* A P of blkp8 lets p in when nobody is inside.
LEMMA PMutex ==
  ASSUME IInv, NEW p \in Proc, NEW s \in Semaphore, PStep(p, s)
  PROVE  Mutex'
  <1> USE DEF IInv
  <1>0. /\ PAt(p, pc[p], s) /\ wait[p] = "nothing" /\ Moves(p)
        /\ sem' = [sem EXCEPT ![s] = sem[s] - 1]
        /\ wait' = IF sem[s] < 1 THEN [wait EXCEPT ![p] = s] ELSE wait
        /\ sem["blkp8"] \in Int /\ "blkp8" \in Semaphore
    BY DEF PStep, Ready, TypeOK, Semaphore
  <1>1. /\ pc[p] \in Nat /\ pc'[p] = pc[p] + 1
        /\ \A q \in Proc : q # p => pc'[q] = pc[q] /\ wait'[q] = wait[q]
        /\ wait'[p] = IF sem[s] < 1 THEN s ELSE "nothing"
    BY <1>0, GoesOn DEF Moves, TypeOK
  <1>2. \A q \in Proc : /\ Inside(q) <=> InsideAt(q, pc[q]) /\ wait[q] # "blkp8"
                        /\ Inside(q)' <=> InsideAt(q, pc'[q]) /\ wait'[q] # "blkp8"
    BY DEF Inside, InsideAt
  <1>3. \A q \in Proc : q # p => (Inside(q)' <=> Inside(q))
    BY <1>1, <1>2
  <1>4. CASE s # "blkp8"
    <2>1. Inside(p)' <=> Inside(p)
      BY <1>0, <1>1, <1>2, <1>4, InsidePlaces
    <2>2. sem'["blkp8"] = sem["blkp8"]
      BY <1>0, <1>4 DEF TypeOK
    <2> QED
      BY <1>3, <2>1, <2>2, MutexSame
  <1>5. CASE s = "blkp8"
    <2>1. ~Inside(p) /\ sem'["blkp8"] = sem["blkp8"] - 1
      BY <1>0, <1>1, <1>2, <1>5, InsidePlaces DEF TypeOK
    <2>2. CASE sem["blkp8"] < 1
      <3>1. ~Inside(p)'
        BY <1>1, <1>2, <1>5, <2>2
      <3>2. \A q \in Proc : Inside(q)' <=> Inside(q)
        BY <1>3, <2>1, <3>1
      <3>3. \A x, y \in Proc : Inside(x)' /\ Inside(y)' => x = y
        BY <3>2 DEF Mutex
      <3>4. ~(\A q \in Proc : ~Inside(q))
        BY <2>2 DEF Mutex
      <3>5. sem'["blkp8"] <= 1 /\ sem'["blkp8"] # 1
        BY <1>0, <2>1, <2>2
      <3>6. ~(\A q \in Proc : ~Inside(q)')
        BY <3>2, <3>4
      <3> QED
        BY <3>3, <3>5, <3>6 DEF Mutex
    <2>3. CASE ~(sem["blkp8"] < 1)
      <3>1. sem["blkp8"] = 1
        BY <1>0, <2>3 DEF Mutex
      <3>2. \A q \in Proc : ~Inside(q)
        BY <3>1 DEF Mutex
      <3>3. Inside(p)'
        BY <1>0, <1>1, <1>2, <1>5, <2>3, InsidePlaces
      <3>4. \A x, y \in Proc : Inside(x)' /\ Inside(y)' => x = y
        BY <1>3, <3>2
      <3>5. sem'["blkp8"] = 0
        BY <2>1, <3>1
      <3> QED
        BY <3>3, <3>4, <3>5 DEF Mutex
    <2> QED
      BY <2>2, <2>3
  <1> QED
    BY <1>4, <1>5

\* A V of blkp8 lets out who was inside, and in who is woken.
LEMMA VMutex ==
  ASSUME IInv, NEW p \in Proc, NEW s \in Semaphore, VStep(p, s)
  PROVE  Mutex'
  <1> USE DEF IInv
  <1>0. /\ VAt(p, pc[p], s) /\ wait[p] = "nothing" /\ Moves(p)
        /\ sem' = [sem EXCEPT ![s] = sem[s] + 1] /\ Wake(s)
        /\ sem["blkp8"] \in Int /\ "blkp8" \in Semaphore /\ "nothing" \notin Semaphore
    BY NoSemaphore DEF VStep, Ready, TypeOK, Semaphore
  <1>1. /\ pc[p] \in Nat /\ pc'[p] = pc[p] + 1
        /\ \A q \in Proc : q # p => pc'[q] = pc[q]
        /\ \A q \in Proc : wait'[q] \in {wait[q], "nothing"}
        /\ \A q \in Proc : wait[q] # s => wait'[q] = wait[q]
    <2>1. pc[p] \in Nat /\ pc'[p] = pc[p] + 1 /\ \A q \in Proc : q # p => pc'[q] = pc[q]
      BY <1>0, GoesOn DEF Moves, TypeOK
    <2>2. /\ \A q \in Proc : wait'[q] \in {wait[q], "nothing"}
          /\ \A q \in Proc : wait[q] # s => wait'[q] = wait[q]
      BY <1>0 DEF Wake, WakeOne, Waiting, TypeOK
    <2> QED
      BY <2>1, <2>2
  <1>2. \A q \in Proc : /\ Inside(q) <=> InsideAt(q, pc[q]) /\ wait[q] # "blkp8"
                        /\ Inside(q)' <=> InsideAt(q, pc'[q]) /\ wait'[q] # "blkp8"
    BY DEF Inside, InsideAt
  <1>3. wait'[p] = "nothing"
    BY <1>0, <1>1
  <1>4. CASE s # "blkp8"
    <2>1. Inside(p)' <=> Inside(p)
      BY <1>0, <1>1, <1>2, <1>3, <1>4, InsidePlaces
    <2>2. \A q \in Proc : q # p => (Inside(q)' <=> Inside(q))
      BY <1>1, <1>2, <1>4
    <2>3. sem'["blkp8"] = sem["blkp8"]
      BY <1>0, <1>4 DEF TypeOK
    <2> QED
      BY <2>1, <2>2, <2>3, MutexSame
  <1>5. CASE s = "blkp8"
    <2>1. Inside(p) /\ ~Inside(p)' /\ sem'["blkp8"] = sem["blkp8"] + 1
      BY <1>0, <1>1, <1>2, <1>5, InsidePlaces DEF TypeOK
    <2>2. /\ sem["blkp8"] <= 0
          /\ \A q \in Proc : Inside(q) => q = p
      BY <1>0, <2>1 DEF Mutex
    <2>3. CASE sem["blkp8"] < 0
      <3>1. PICK w \in Waiting("blkp8") : wait' = [wait EXCEPT ![w] = "nothing"]
        <4>1. Waiting("blkp8") # {}
          BY <1>0, <2>3, Waiters DEF Waiting
        <4> QED
          BY <1>0, <1>5, <2>3, <4>1 DEF Wake, WakeOne
      <3>2. w \in Proc /\ wait[w] = "blkp8" /\ w # p
        BY <1>0, <3>1 DEF Waiting
      <3>3. PAt(w, pc[w] - 1, "blkp8") /\ pc[w] - 1 \in Nat /\ pc[w] - 1 + 1 = pc[w]
        BY <1>0, <3>2 DEF WaitsFor, TypeOK
      <3>4. InsideAt(w, pc[w])
        BY <3>2, <3>3, InsidePlaces
      <3>5. Inside(w)'
        BY <1>0, <1>1, <1>2, <3>1, <3>2, <3>4 DEF TypeOK
      <3>6. ASSUME NEW q \in Proc, q # w PROVE ~Inside(q)'
        <4>1. CASE q = p
          BY <2>1, <4>1
        <4>2. CASE q # p
          <5>1. ~Inside(q) /\ wait'[q] = wait[q] /\ pc'[q] = pc[q]
            BY <1>1, <2>2, <3>1, <3>6, <4>2 DEF TypeOK
          <5> QED
            BY <1>2, <5>1
        <4> QED
          BY <4>1, <4>2
      <3>7. \A x, y \in Proc : Inside(x)' /\ Inside(y)' => x = y
        BY <3>6
      <3>8. sem'["blkp8"] <= 1 /\ sem'["blkp8"] # 1
        BY <1>0, <2>1, <2>3
      <3> QED
        BY <3>2, <3>5, <3>7, <3>8 DEF Mutex
    <2>4. CASE ~(sem["blkp8"] < 0)
      <3>1. sem'["blkp8"] = 1 /\ wait' = wait
        BY <1>0, <1>5, <2>1, <2>2, <2>4 DEF Wake
      <3>2. ASSUME NEW q \in Proc PROVE ~Inside(q)'
        <4>1. CASE q = p
          BY <2>1, <4>1
        <4>2. CASE q # p
          BY <1>1, <1>2, <2>2, <3>1, <4>2
        <4> QED
          BY <4>1, <4>2
      <3> QED
        BY <3>1, <3>2 DEF Mutex
    <2> QED
      BY <2>3, <2>4
  <1> QED
    BY <1>4, <1>5

\* Only a P and a V of blkp8 let somebody in or out.
LEMMA MutexKept ==
  ASSUME IInv, [Next]_vars, ~refused'
  PROVE  Mutex'
  <1> USE DEF IInv
  <1>0. \A q \in Proc : /\ Inside(q) <=> InsideAt(q, pc[q]) /\ wait[q] # "blkp8"
                        /\ Inside(q)' <=> InsideAt(q, pc'[q]) /\ wait'[q] # "blkp8"
    BY DEF Inside, InsideAt
  <1>1. ASSUME NEW p \in Proc, QuietStep(p) PROVE Mutex'
    <2>1. /\ QuietAt(p, pc[p]) /\ wait[p] = "nothing" /\ pc[p] \in Nat
          /\ pc' = pc \/ pc' = [pc EXCEPT ![p] = pc[p] + 1]
          /\ wait' = wait \/ wait' = [wait EXCEPT ![p] = "clock"]
          /\ sem' = sem
      BY <1>1 DEF QuietStep, Ready, Moves, TypeOK
    <2>2. \A q \in Proc : q # p => pc'[q] = pc[q] /\ wait'[q] = wait[q]
      BY <2>1 DEF TypeOK
    <2>3. /\ pc'[p] = pc[p] \/ pc'[p] = pc[p] + 1
          /\ wait'[p] # "blkp8"
      BY <2>1 DEF TypeOK
    <2>4. Inside(p)' <=> Inside(p)
      BY <1>0, <2>1, <2>3, InsidePlaces
    <2>5. \A q \in Proc : Inside(q)' <=> Inside(q)
      BY <1>0, <2>2, <2>4
    <2> QED
      BY <2>1, <2>5, MutexSame
  <1>2. ASSUME NEW p \in Proc, NEW c \in Proc, CreateStep(p, c) PROVE Mutex'
    <2>1. /\ pc[c] = 0 /\ p # c /\ pc'[p] = pc[p] + 1 /\ pc'[c] = 1
          /\ \A x \in Proc : x # p /\ x # c => pc'[x] = pc[x]
      BY <1>2, AfterCreate
    <2>2. CreateAt(p, pc[p], c) /\ wait' = wait /\ sem' = sem /\ pc[p] \in Nat
      BY <1>2 DEF CreateStep, TypeOK
    <2>3. Inside(p)' <=> Inside(p)
      BY <1>0, <2>1, <2>2, InsidePlaces
    <2>4. ~Inside(c)' /\ ~Inside(c)
      BY <1>0, <2>1, InsidePlaces
    <2>5. \A q \in Proc : Inside(q)' <=> Inside(q)
      BY <1>0, <2>1, <2>2, <2>3, <2>4
    <2> QED
      BY <2>2, <2>5, MutexSame
  <1>3. ASSUME NEW p \in Proc, EndStep(p) PROVE Mutex'
    <2>1. /\ EndAt(p, pc[p]) /\ pc[p] \in Nat /\ wait' = wait /\ sem' = sem
          /\ pc'[p] = Ended /\ \A x \in Proc : x # p => pc'[x] = pc[x]
      BY <1>3 DEF EndStep, TypeOK
    <2>2. ~InsideAt(p, pc[p]) /\ ~InsideAt(p, Ended)
      BY <2>1, InsidePlaces
    <2>3. \A q \in Proc : Inside(q)' <=> Inside(q)
      BY <1>0, <2>1, <2>2
    <2> QED
      BY <2>1, <2>3, MutexSame
  <1>4. ASSUME KillStep PROVE Mutex'
    <2>1. \A i : ~InsideAt(p4, i) /\ ~InsideAt(p4b, i)
      BY Names DEF InsideAt, LeafRoles
    <2>2. /\ \A x \in Proc : x # p4 /\ x # p4b => pc'[x] = pc[x]
          /\ \A x \in Proc : x # p4b => wait'[x] = wait[x]
      BY <1>4, Names DEF KillStep, TypeOK
    <2>3. \A q \in Proc : Inside(q)' <=> Inside(q)
      BY <1>0, <2>1, <2>2, Names
    <2>4. wait[p4b] \in Semaphore => wait[p4b] = "blkp4"
      <3>1. wait[p4b] \in Semaphore => PAt(p4b, pc[p4b] - 1, wait[p4b])
        BY Names DEF WaitsFor
      <3> QED
        BY <3>1, Names DEF PAt, LeafRoles
    <2>5. sem' = IF wait[p4b] \in Semaphore
                 THEN [sem EXCEPT ![wait[p4b]] = sem[wait[p4b]] + 1] ELSE sem
      BY <1>4 DEF KillStep, GiveBack
    <2>6. sem'["blkp8"] = sem["blkp8"]
      BY <2>4, <2>5 DEF TypeOK, Semaphore
    <2> QED
      BY <2>3, <2>6, MutexSame
  <1>5. ASSUME Still PROVE Mutex'
    <2>1. \A q \in Proc : wait'[q] # "blkp8" <=> wait[q] # "blkp8"
      BY <1>5 DEF Still, TypeOK
    <2>2. \A q \in Proc : Inside(q)' <=> Inside(q)
      BY <1>0, <1>5, <2>1 DEF Still
    <2> QED
      BY <1>5, <2>2, MutexSame DEF Still
  <1> QED
    BY <1>1, <1>2, <1>3, <1>4, <1>5, PMutex, VMutex, AnyForm

\* Where a family can be.
LEMMA FamilyPlaces ==
  ASSUME TypeOK, NEW r \in Round
  PROVE  /\ At("p8root", r) \in 0..Ended /\ At("child1", r) \in 0..Ended
         /\ At("intermediate", r) \in 0..Ended /\ At("curiousleaf", r) \in 0..Ended
         /\ At("leaf1", r) \in 0..Ended /\ At("leaf2", r) \in 0..Ended
         /\ At("leaf3", r) \in 0..Ended /\ At("child2", r) \in 0..Ended
         /\ Ended \in Nat /\ Ended > 18
  BY Members, Lengths, RoundsAssumption DEF TypeOK, At, P8Roles

\* A child is created in the round that is on, if its parent belongs to one.
LEMMA CreatesNow ==
  ASSUME IInv, NEW p \in Proc, NEW c \in Proc, CreateStep(p, c), Role(p) \in P8Roles
  PROVE  /\ Turn(p) \in Round /\ p = Member(Role(p), Turn(p)) /\ Now(Turn(p))
         /\ Role(c) \in P8Roles \ {"p8root"} /\ c = Member(Role(c), Turn(p))
  <1> USE DEF IInv
  <1> DEFINE r == Turn(p)
  <1>1. CreateAt(p, pc[p], c)
    BY DEF CreateStep
  <1>2. r \in Round /\ p = Member(Role(p), r)
    BY Roles
  <1>3. \/ Role(p) = "p8root" /\ pc[p] \in 2..3
        \/ Role(p) = "child1" /\ pc[p] = 2
        \/ Role(p) = "intermediate" /\ pc[p] \in 1..2
        \/ Role(p) = "child2" /\ pc[p] \in 1..2
    BY <1>1 DEF CreateAt, P8Roles
  <1>4. Role(c) \in P8Roles \ {"p8root"} /\ c = Member(Role(c), r)
    BY <1>1, <1>3, Names DEF CreateAt, P8Roles
  <1> HIDE DEF r
  <1>5. CASE Role(p) = "p8root"
    BY <1>2, <1>3, <1>4, <1>5, OneRound DEF At, r
  <1>6. CASE Role(p) # "p8root"
    <2>1. At(Role(p), r) = pc[p]
      BY <1>2 DEF At
    <2>2. At("p8root", r) > 2
      BY <1>2, <1>3, <1>6, <2>1, FamilyPlaces DEF CreatedIn8, CreatedIn
    <2>3. ~(At("leaf1", r) > 1) \/ ~(At("leaf3", r) > 1)
      BY <1>2, <1>3, <1>6, <2>1, FamilyPlaces DEF CreatedIn8, CreatedIn
    <2>4. ~(At("p8root", r) > 8)
      BY <1>2, <2>3, ReportedType DEF InOrder
    <2> QED
      BY <1>2, <1>4, <2>2, <2>4, FamilyPlaces, OneRound DEF r
  <1> QED
    BY <1>2, <1>4, <1>5, <1>6 DEF r

\* While p8root is in its mutex nobody but its family creates anybody, and behind
\* intermediate only child2 and its leaves are still created.
LEMMA CreatesHere ==
  ASSUME IInv, NEW r \in Round, At("p8root", r) \in 1..8,
         NEW p \in Proc, NEW c \in Proc, CreateStep(p, c)
  PROVE  /\ Role(c) \in P8Roles /\ c = Member(Role(c), r) /\ pc[c] = 0
         /\ At("intermediate", r) = Ended => Role(c) \in {"child2", "leaf2", "leaf3"}
  <1> USE DEF IInv
  <1>1. CreateAt(p, pc[p], c) /\ Ready(p) /\ pc[c] = 0
    BY AfterCreate DEF CreateStep
  <1>2. Now(r)
    BY OneRound
  <1>3. ASSUME Role(p) = "p1" PROVE FALSE
    <2>1. p = p1 /\ wait[p1] = "nothing"
      BY <1>1, <1>3, Roles DEF Ready
    <2>2. pc[p1] \in {14 + 2 * r, 15 + 2 * r}
      BY <1>2, Names DEF Now, Begun, Over, TypeOK, Round
    <2>3. pc[p1] # 14 + 2 * r
      BY <1>1, <1>3, <2>1 DEF CreateAt, Round
    <2>4. ~Past(p1, 15 + 2 * r)
      BY RoundSignalled
    <2> QED
      BY <2>1, <2>2, <2>3, <2>4 DEF Past
  <1>4. ASSUME Role(p) = "p4" PROVE FALSE
    <2>1. p = p4 /\ pc[p4] = 5
      BY <1>1, <1>4, Roles DEF CreateAt
    <2>2. pc[p1] > 14
      BY <1>2, Names DEF Now, Begun, Round, TypeOK
    <2>3. pc[p5] > 10
      BY <2>2, Signalled, Names DEF Past
    <2>4. pc[p4] > 8
      BY <2>3, Signalled, Names DEF Past, TypeOK
    <2> QED
      BY <2>1, <2>4
  <1>5. Role(p) \in P8Roles
    BY <1>1, <1>3, <1>4 DEF CreateAt, P8Roles
  <1>6. Role(c) \in P8Roles \ {"p8root"} /\ c = Member(Role(c), r) /\ p = Member(Role(p), r)
    BY <1>2, <1>5, CreatesNow, OneRound
  <1>7. ASSUME At("intermediate", r) = Ended PROVE Role(c) \in {"child2", "leaf2", "leaf3"}
    <2>1. At("intermediate", r) > 2 /\ At("child1", r) > 2 /\ At("child1", r) > 0
      BY <1>7, FamilyPlaces DEF CreatedIn8, CreatedIn
    <2>2. At("curiousleaf", r) > 0 /\ At("leaf1", r) > 0
      BY <2>1, FamilyPlaces DEF CreatedIn8, CreatedIn
    <2>3. At(Role(c), r) = 0
      BY <1>1, <1>6 DEF At
    <2> QED
      BY <1>6, <2>1, <2>2, <2>3, FamilyPlaces DEF P8Roles
  <1> QED
    BY <1>1, <1>6, <1>7

\* While p8root is in its mutex it lives, and so do p1 and the members of its family
\* that need the mutex.
LEMMA LateAlive ==
  ASSUME TypeOK, CreatedIn8, InOrder, NEW r \in Round, At("p8root", r) \in 1..8
  PROVE  /\ Alive(p1) /\ Alive(Root(r))
         /\ \A role \in Late : At(role, r) # Ended
         /\ \A role \in Late : At(role, r) > 0 => Alive(Member(role, r))
  <1>1. \A role \in Late : At(role, r) \in 0..4
    BY FamilyPlaces DEF InOrder, Late
  <1>2. Ended \in Nat /\ Ended = 17 + 2 * Rounds /\ Rounds \in Nat /\ r \in 1..Rounds
    BY Lengths, RoundsAssumption DEF Round
  <1>3. pc[p1] > 13 + 2 * r /\ ~(pc[p1] > 15 + 2 * r) /\ pc[p1] \in 0..Ended
    BY OneRound, Names DEF Now, Begun, Over, TypeOK
  <1> QED
    BY <1>1, <1>2, <1>3 DEF Alive, At, Root

\* And nobody of these ends while p8root stays in it.
LEMMA LateStay ==
  ASSUME IInv, [Next]_vars, ~refused', InOrder', NEW r \in Round,
         At("p8root", r) \in 1..8, At("p8root", r)' \in 1..8
  PROVE  /\ pc'[p1] # Ended /\ pc'[Root(r)] # Ended
         /\ \A role \in Late : At(role, r)' # Ended
  <1> USE DEF IInv
  <1>1. Ended \in Nat /\ Ended > 18 /\ p1 \in Proc /\ p1 # p4b /\ Rounds \in Nat
    BY Lengths, RoundsAssumption, Names
  <1>2. ASSUME pc'[p1] = Ended PROVE FALSE
    <2>1. pc[p1] # Ended
      BY <1>1, LateAlive DEF Alive
    <2>2. Ready(p1) /\ EndAt(p1, pc[p1])
      BY <1>1, <1>2, <2>1, Ends DEF EndStep
    <2>3. pc[p1] = 15 + 2 * Rounds /\ wait[p1] = "nothing"
      BY <2>2, Names DEF EndAt, Ready, LeafRoles
    <2>4. pc[p1] <= 15 + 2 * r /\ r \in 1..Rounds
      BY <1>1, <2>3, OneRound DEF Now, Over, Round
    <2>5. r = Rounds
      BY <1>1, <2>3, <2>4
    <2> QED
      BY <2>3, <2>5, RoundSignalled DEF Past
  <1>3. pc'[Root(r)] # Ended
    BY <1>1 DEF At, Root
  <1>4. \A role \in Late : At(role, r)' # Ended
    BY <1>1 DEF InOrder, Late
  <1> QED
    BY <1>2, <1>3, <1>4

\* A child that is created has its creator for its parent.
LEMMA FirstParent ==
  ASSUME IInv, [Next]_vars, ~refused', NEW p \in Proc, NEW i, NEW c \in Proc, CreateAt(p, i, c),
         pc[c] = 0, pc'[c] > 0
  PROVE  CreateStep(p, c) /\ parent'[c] = p
  <1>1. PICK q \in Proc : CreateStep(q, c) /\ parent'[c] = q
    BY Appears
  <1>2. q = p
    BY <1>1, OnePlace DEF CreateStep
  <1> QED
    BY <1>1, <1>2

\* Who creates whom in a family.
LEMMA FamilyCreates ==
  ASSUME NEW r \in Round
  PROVE  /\ CreateAt(p1, 13 + 2 * r, Root(r))
         /\ CreateAt(Root(r), 2, Member("child1", r))
         /\ CreateAt(Root(r), 3, Member("child2", r))
         /\ CreateAt(Member("child1", r), 2, Member("intermediate", r))
         /\ CreateAt(Member("intermediate", r), 1, Member("curiousleaf", r))
         /\ CreateAt(Member("child2", r), 1, Member("leaf2", r))
         /\ CreateAt(Member("child2", r), 2, Member("leaf3", r))
  BY Names DEF CreateAt, Root, P8Roles

\* child1 is a tutor from its first step on.
LEMMA FamilyTutorKept ==
  ASSUME IInv, [Next]_vars, ~refused', NEW r \in Round, At("p8root", r) \in 1..8,
         At("child1", r)' > 1
  PROVE  Member("child1", r) \in tutor'
  <1> USE DEF IInv
  <1> DEFINE one == Member("child1", r)
  <1>1. one \in Proc /\ Role(one) = "child1" /\ one # p4b
    BY Members, Names DEF P8Roles
  <1>2. pc'[one] > 1 /\ pc[one] \in 0..Ended
    BY FamilyPlaces DEF At
  <1>3. CASE pc[one] > 1
    <2>1. one \in tutor
      BY <1>3 DEF Families, FamilyOf, At
    <2>2. Alive(one)
      BY <1>3, <1>2, LateAlive DEF At, Late
    <2> QED
      BY <2>1, <2>2, Keeps
  <1>4. CASE ~(pc[one] > 1)
    <2> HIDE DEF one
    <2>1. QuietAt(one, 1)
      BY <1>1 DEF QuietAt
    <2>2. pc[one] > 0
      BY <1>1, <1>2, Lived
    <2>3. QuietStep(one)
      BY <1>1, <1>2, <1>4, <2>1, <2>2, Quietly
    <2> QED
      BY <1>1, <2>3 DEF QuietStep, one
  <1> QED
    BY <1>3, <1>4

\* A parent that lives until the step is over stays one.
LEMMA FamilyParentKept ==
  ASSUME IInv, [Next]_vars, ~refused', NEW p \in Proc, NEW i, NEW c \in Proc, CreateAt(p, i, c),
         pc[c] > 0 => parent[c] = p, Alive(p), pc'[p] # Ended, pc'[c] > 0, pc'[c] # Ended
  PROVE  parent'[c] = p
  <1>1. CASE pc[c] > 0
    BY <1>1, ParentKept
  <1>2. CASE ~(pc[c] > 0)
    <2>1. pc[c] = 0
      BY <1>2 DEF IInv, TypeOK
    <2> QED
      BY <2>1, FirstParent
  <1> QED
    BY <1>1, <1>2

\* A pid is kept as long as its process lives and no other of this role is created.
LEMMA PidKept ==
  ASSUME IInv, [Next]_vars, ~refused', NEW r \in Round, At("p8root", r) \in 1..8,
         NEW role \in {"child1", "intermediate"},
         Alive(Member(role, r)), pids[role] = Member(role, r)
  PROVE  pids'[role] = Member(role, r)
  <1>1. ASSUME NEW p \in Proc, NEW c \in Proc, CreateStep(p, c), Role(c) = role PROVE FALSE
    <2>1. c = Member(role, r) /\ pc[c] = 0
      BY <1>1, CreatesHere
    <2> QED
      BY <2>1 DEF Alive
  <1> QED
    BY <1>1, PidsAfter

\* Who is created gets the pid of its role.
LEMMA FirstPid ==
  ASSUME IInv, NEW p \in Proc, NEW c \in Proc, CreateStep(p, c),
         Role(c) \in {"child1", "intermediate"}
  PROVE  pids'[Role(c)] = c
  BY DEF CreateStep, IInv, TypeOK

\* A family begins with p8root alone.
LEMMA FamilyBegins ==
  ASSUME IInv, [Next]_vars, ~refused', TypeOK', CreatedIn8', NEW r \in Round,
         At("p8root", r) = 0, At("p8root", r)' > 0
  PROVE  /\ parent'[Root(r)] = p1
         /\ \A role \in P8Roles \ {"p8root"} : At(role, r)' = 0
  <1>1. Root(r) \in Proc /\ pc[Root(r)] = 0 /\ pc'[Root(r)] > 0
    BY Members DEF Root, At, P8Roles
  <1>2. PICK p \in Proc : CreateStep(p, Root(r)) /\ parent'[Root(r)] = p /\ pc'[Root(r)] = 1
    BY <1>1, Appears
  <1>3. parent'[Root(r)] = p1
    BY <1>1, Names, FamilyCreates, FirstParent
  <1>4. At("p8root", r)' = 1
    BY <1>2 DEF At, Root
  <1>5. \A role \in P8Roles : At(role, r)' \in Nat
    BY Members DEF TypeOK, At
  <1>6. CreatedIn(r)'
    BY DEF CreatedIn8
  <1>7. At("child1", r)' = 0 /\ At("child2", r)' = 0
    BY <1>4, <1>5, <1>6 DEF CreatedIn, P8Roles
  <1>8. At("intermediate", r)' = 0
    BY <1>5, <1>6, <1>7 DEF CreatedIn, P8Roles
  <1> QED
    BY <1>3, <1>5, <1>6, <1>7, <1>8 DEF CreatedIn, P8Roles

\* The parents and pids of those who need the mutex stay, for who is named lives.
LEMMA FamilyLateKept ==
  ASSUME IInv, [Next]_vars, ~refused', TypeOK', CreatedIn8', InOrder', NEW r \in Round,
         At("p8root", r) \in 1..8, At("p8root", r)' \in 1..8
  PROVE  /\ parent'[Root(r)] = p1
         /\ At("child1", r)' > 0 => /\ pids'["child1"] = Member("child1", r)
                                    /\ parent'[Member("child1", r)] = Root(r)
         /\ At("child2", r)' > 0 => parent'[Member("child2", r)] = Root(r)
         /\ \A role \in {"leaf2", "leaf3"} :
              At(role, r)' > 0 => parent'[Member(role, r)] = Member("child2", r)
  <1> USE DEF IInv
  <1>1. Ended' = Ended /\ p1 \in Proc /\ Root(r) \in Proc /\ At("p8root", r) = pc[Root(r)]
        /\ At("p8root", r)' = pc'[Root(r)] /\ \A role \in P8Roles : Member(role, r) \in Proc
    BY Names DEF Ended, At, Root, P8Roles
  <1>2. /\ Alive(p1) /\ Alive(Root(r))
        /\ \A role \in Late : At(role, r) > 0 => Alive(Member(role, r))
    BY LateAlive
  <1>3. pc'[p1] # Ended /\ pc'[Root(r)] # Ended /\ \A role \in Late : At(role, r)' # Ended
    BY LateStay
  <1>4. FamilyOf(r)
    BY DEF Families
  <1>5. parent'[Root(r)] = p1
    BY <1>1, <1>2, <1>3, <1>4, ParentKept DEF FamilyOf
  <1>6. ASSUME NEW role \in {"child1", "child2"}, At(role, r)' > 0
        PROVE  parent'[Member(role, r)] = Root(r)
    <2>1. PICK i : CreateAt(Root(r), i, Member(role, r))
      BY FamilyCreates
    <2>2. pc[Member(role, r)] > 0 => parent[Member(role, r)] = Root(r)
      BY <1>4 DEF FamilyOf
    <2> QED
      BY <1>1, <1>2, <1>3, <1>6, <2>1, <2>2, FamilyParentKept DEF At, Late, P8Roles
  <1>7. ASSUME NEW role \in {"leaf2", "leaf3"}, At(role, r)' > 0
        PROVE  parent'[Member(role, r)] = Member("child2", r)
    <2>1. PICK i : CreateAt(Member("child2", r), i, Member(role, r))
      BY FamilyCreates
    <2>2. pc[Member(role, r)] > 0 => parent[Member(role, r)] = Member("child2", r)
      BY <1>4 DEF FamilyOf
    <2>3. CASE At("child2", r) > 0
      BY <1>1, <1>2, <1>3, <1>7, <2>1, <2>2, <2>3, FamilyParentKept DEF At, Late, P8Roles
    <2>4. CASE ~(At("child2", r) > 0)
      <3>1. At("child2", r)' > 1
        <4>1. At(role, r)' > 0 /\ CreatedIn(r)'
          BY <1>7 DEF CreatedIn8
        <4>2. pc'[Member("child2", r)] \in Nat
          BY Members, Forward DEF P8Roles
        <4> QED
          BY <4>1, <4>2 DEF CreatedIn, At
      <3> QED
        BY <1>1, <2>4, <3>1, Lived DEF At, P8Roles
    <2> QED
      BY <2>3, <2>4
  <1>8. ASSUME At("child1", r)' > 0 PROVE pids'["child1"] = Member("child1", r)
    <2>1. CASE At("child1", r) > 0
      <3>1. Alive(Member("child1", r)) /\ pids["child1"] = Member("child1", r)
        BY <1>2, <1>4, <2>1 DEF Late, FamilyOf, At
      <3> QED
        BY <3>1, PidKept
    <2>2. CASE ~(At("child1", r) > 0)
      <3>1. pc[Member("child1", r)] = 0 /\ pc'[Member("child1", r)] > 0
        BY <1>8, <2>2, FamilyPlaces DEF At
      <3>2. CreateStep(Root(r), Member("child1", r))
        BY <1>1, <3>1, FamilyCreates, FirstParent DEF P8Roles
      <3> QED
        BY <1>1, <3>2, FirstPid, Members DEF P8Roles
    <2> QED
      BY <2>1, <2>2
  <1> QED
    BY <1>5, <1>6, <1>7, <1>8

\* intermediate's pid and parent stay while it lives; then its PCB may be given to
\* child2 or one of its leaves.
LEMMA FamilyMiddleKept ==
  ASSUME IInv, [Next]_vars, ~refused', TypeOK', CreatedIn8', InOrder', NEW r \in Round,
         At("p8root", r) \in 1..8, At("p8root", r)' \in 1..8
  PROVE  /\ Alive(Member("intermediate", r))' =>
              /\ parent'[Member("intermediate", r)] = Member("child1", r)
              /\ pids'["intermediate"] = Member("intermediate", r)
         /\ At("intermediate", r)' > 0 =>
              pids'["intermediate"] \in {Member("intermediate", r), Member("child2", r),
                                         Member("leaf2", r), Member("leaf3", r)}
  <1> USE DEF IInv
  <1> DEFINE one == Member("child1", r)
             inter == Member("intermediate", r)
             behind == {Member("child2", r), Member("leaf2", r), Member("leaf3", r)}
  <1>1. /\ one \in Proc /\ inter \in Proc /\ Role(inter) = "intermediate" /\ Ended' = Ended
        /\ pc[inter] = At("intermediate", r) /\ pc'[inter] = At("intermediate", r)'
        /\ pc[one] = At("child1", r) /\ pc'[one] = At("child1", r)'
        /\ pc[inter] \in 0..Ended /\ pc'[inter] >= pc[inter] /\ pc'[inter] \in 0..Ended
        /\ Ended \in Nat /\ Ended > 18
    BY Members, FamilyPlaces, Forward DEF Ended, At, P8Roles
  <1>2. /\ pc[one] > 0 => Alive(one)
        /\ pc'[one] # Ended
    BY <1>1, LateAlive, LateStay DEF Late
  <1>3. /\ Alive(inter) => parent[inter] = one /\ pids["intermediate"] = inter
        /\ pc[inter] > 0 => pids["intermediate"] \in {inter} \cup behind
    BY DEF Families, FamilyOf
  <1>4. CreateAt(one, 2, inter)
    BY FamilyCreates
  <1>5. \A p, c \in Proc : CreateStep(p, c) =>
          /\ Role(c) \in P8Roles /\ c = Member(Role(c), r) /\ pc[c] = 0
          /\ pc[inter] = Ended => Role(c) \in {"child2", "leaf2", "leaf3"}
    BY <1>1, CreatesHere
  <1>6. Alive(inter) => pids'["intermediate"] = inter
    BY <1>3, PidKept
  <1> HIDE DEF one, inter
  <1>7. CASE pc[inter] = 0 /\ pc'[inter] = 0
    BY <1>1, <1>7 DEF Alive, inter
  <1>8. CASE pc[inter] = 0 /\ pc'[inter] # 0
    <2>1. CreateStep(one, inter) /\ parent'[inter] = one
      BY <1>1, <1>4, <1>8, FirstParent
    <2>2. pids'["intermediate"] = inter
      BY <1>1, <2>1, FirstPid
    <2> QED
      BY <2>1, <2>2 DEF one, inter
  <1>9. CASE Alive(inter)
    <2>1. pids'["intermediate"] = inter
      BY <1>6, <1>9
    <2>2. pc[inter] > 0 /\ pc[one] > 0
      <3>1. At("child1", r) > 2
        BY <1>1, <1>9, FamilyPlaces DEF Alive, CreatedIn8, CreatedIn
      <3> QED
        BY <1>1, <1>9, <3>1, FamilyPlaces DEF Alive
    <2>3. ASSUME Alive(inter)' PROVE parent'[inter] = one
      <3>1. pc'[inter] > 0 /\ pc'[inter] # Ended
        BY <1>1, <2>3 DEF Alive
      <3> QED
        BY <1>1, <1>2, <1>3, <1>4, <1>9, <2>2, <3>1, FamilyParentKept
    <2> QED
      BY <2>1, <2>3 DEF one, inter
  <1>10. CASE pc[inter] = Ended
    <2>1. ~(Alive(inter)')
      BY <1>1, <1>10 DEF Alive
    <2>2. pids["intermediate"] \in {inter} \cup behind
      BY <1>1, <1>3, <1>10
    <2>3. ASSUME NEW p \in Proc, NEW c \in Proc, CreateStep(p, c)
          PROVE  c \in behind /\ Role(c) # "intermediate"
      BY <1>5, <1>10, <2>3
    <2>4. pids'["intermediate"] \in {inter} \cup behind
      BY <2>2, <2>3, PidsAfter
    <2> QED
      BY <2>1, <2>4 DEF inter
  <1> QED
    BY <1>1, <1>7, <1>8, <1>9, <1>10 DEF Alive

\* curiousleaf's parent is intermediate while that lives, and then child1, or the PCB
\* intermediatepid goes on naming.
LEMMA FamilyAdoptionKept ==
  ASSUME IInv, [Next]_vars, ~refused', TypeOK', CreatedIn8', InOrder', NEW r \in Round,
         At("p8root", r) \in 1..8, At("p8root", r)' \in 1..8, At("curiousleaf", r)' \in 1..3
  PROVE  parent'[Member("curiousleaf", r)]
           \in IF Alive(Member("intermediate", r))' THEN {Member("intermediate", r)}
               ELSE {Member("child1", r), pids'["intermediate"]}
  <1> USE DEF IInv
  <1> DEFINE one == Member("child1", r)
             inter == Member("intermediate", r)
             leaf == Member("curiousleaf", r)
             kept == pids["intermediate"]
  <1>1. /\ one \in Proc /\ inter \in Proc /\ leaf \in Proc /\ inter # p4b
        /\ Role(inter) = "intermediate" /\ Role(leaf) = "curiousleaf" /\ Ended' = Ended
        /\ pc[inter] = At("intermediate", r) /\ pc'[inter] = At("intermediate", r)'
        /\ pc[one] = At("child1", r) /\ pc'[one] = At("child1", r)'
        /\ pc[leaf] = At("curiousleaf", r) /\ pc'[leaf] = At("curiousleaf", r)'
        /\ pc'[leaf] \in 1..3 /\ pc[leaf] \in 0..Ended /\ pc'[leaf] >= pc[leaf]
        /\ pc[inter] \in 0..Ended /\ pc'[inter] >= pc[inter] /\ pc'[inter] \in 0..Ended
        /\ Ended \in Nat /\ Ended > 18
    BY Members, Names, FamilyPlaces, Forward DEF Ended, At, P8Roles
  <1>2. /\ pc[one] > 0 => Alive(one)
        /\ \A role \in Late : At(role, r)' # Ended
    BY <1>1, LateAlive, LateStay DEF Late
  <1>3. CASE pc[leaf] = 0
    <2>1. CreateStep(inter, leaf) /\ parent'[leaf] = inter
      BY <1>1, <1>3, FamilyCreates, FirstParent
    <2>2. pc[inter] = 1 /\ pc'[inter] = 2
      <3>1. pc[inter] = 1
        BY <1>1, <2>1, FamilyCreates, OnePlace DEF CreateStep
      <3> QED
        BY <1>1, <2>1, <3>1, AfterCreate
    <2>3. Alive(inter)'
      BY <1>1, <2>2 DEF Alive
    <2> QED
      BY <2>1, <2>3
  <1>4. CASE pc[leaf] \in 1..3
    <2>1. parent[leaf] \in IF Alive(inter) THEN {inter} ELSE {one, kept}
      BY <1>4 DEF Families, FamilyOf
    <2>2. pc[inter] > 1 /\ pc[one] > 2 /\ Alive(one) /\ pc'[one] # Ended
      <3>1. At("intermediate", r) > 1 /\ At("child1", r) > 2
        BY <1>1, <1>4, CuriousEarly
      <3>2. At("child1", r)' # Ended
        BY <1>2 DEF Late
      <3> QED
        BY <1>1, <1>2, <3>1, <3>2, FamilyPlaces
    <2>0. pc[inter] > 0 /\ pc[one] > 1
      BY <1>1, <2>2, FamilyPlaces
    <2>3. one \in tutor /\ (Alive(inter) => parent[inter] = one /\ kept = inter)
      BY <2>0 DEF Families, FamilyOf
    <2>4. kept \in {inter, Member("child2", r), Member("leaf2", r), Member("leaf3", r)}
      BY <2>0 DEF Families, FamilyOf
    <2> HIDE DEF one, inter, leaf
    <2>5. pc[leaf] > 0 /\ pc'[leaf] # Ended
      BY <1>1, <1>4
    <2>6. CASE Alive(inter) /\ pc'[inter] # Ended
      <3>1. parent[leaf] = inter
        BY <2>1, <2>6
      <3>2. parent'[leaf] = inter
        BY <1>1, <2>5, <2>6, <3>1, ParentKept
      <3>3. Alive(inter)'
        BY <1>1, <2>2, <2>6 DEF Alive
      <3> QED
        BY <3>2, <3>3 DEF inter, leaf
    <2>7. CASE Alive(inter) /\ pc'[inter] = Ended
      <3>1. parent[leaf] = inter /\ parent[inter] = one /\ kept = inter
        BY <2>1, <2>3, <2>7
      <3>2. EndStep(inter)
        BY <1>1, <2>7, Ends DEF Alive
      <3>3. pids'["intermediate"] = inter
        BY <3>1, <3>2 DEF EndStep
      <3>4. ~(Alive(inter)')
        BY <1>1, <2>7 DEF Alive
      <3>5. parent'[leaf] \in {one, inter}
        <4>1. Adopt(inter)
          BY <3>2 DEF EndStep
        <4> QED
          BY <1>1, <2>3, <3>1, <4>1, Names DEF Adopt, TypeOK
      <3> QED
        BY <3>3, <3>4, <3>5 DEF one, inter, leaf
    <2>8. CASE ~Alive(inter)
      <3>1. pc[inter] = Ended /\ ~(Alive(inter)')
        BY <1>1, <2>2, <2>8 DEF Alive
      <3>2. CASE parent[leaf] = one
        <4>1. parent'[leaf] = one
          BY <1>1, <2>2, <2>5, <3>2, ParentKept
        <4> QED
          BY <3>1, <4>1 DEF one, inter, leaf
      <3>3. CASE parent[leaf] = kept
        <4>1. parent'[leaf] = pids'["intermediate"]
          <5>1. CASE \E p, c \in Proc : CreateStep(p, c)
            <6>1. PICK p, c \in Proc : CreateStep(p, c)
              BY <5>1
            <6>2. PICK old \in Proc :
                    /\ parent' = [x \in Proc |-> IF x = c THEN p
                                                 ELSE IF parent[x] = old THEN c ELSE parent[x]]
                    /\ pids' = [x \in DOMAIN pids |->
                                  IF x = Role(c) THEN c
                                  ELSE IF pids[x] = old THEN c ELSE pids[x]]
              BY <6>1 DEF CreateStep
            <6>3. Role(c) # "intermediate" /\ c # leaf
              BY <1>1, <1>4, <3>1, <6>1, CreatesHere
            <6> QED
              BY <1>1, <3>3, <6>2, <6>3 DEF TypeOK
          <5>2. CASE ~(\E p, c \in Proc : CreateStep(p, c))
            <6>1. pids'["intermediate"] = kept
              BY <5>2, PidsAfter
            <6>2. ASSUME NEW p \in Proc, EndStep(p) \/ (KillStep /\ p = p4b), p = kept
                  PROVE  FALSE
              <7>1. pc[p] # Ended /\ pc'[p] = Ended
                BY <1>1, <6>2, Names DEF EndStep, KillStep, Ready, Alive, TypeOK
              <7>2. p # inter
                BY <3>1, <7>1
              <7>3. p \in {Member("child2", r), Member("leaf2", r), Member("leaf3", r)}
                BY <2>4, <6>2, <7>2
              <7> QED
                BY <1>2, <7>1, <7>3 DEF At, Late
            <6>3. parent'[leaf] = kept
              BY <1>1, <2>5, <3>3, <5>2, <6>2, ParentAfter
            <6> QED
              BY <6>1, <6>3
          <5> QED
            BY <5>1, <5>2
        <4> QED
          BY <3>1, <4>1 DEF one, inter, leaf
      <3> QED
        BY <2>1, <2>8, <3>2, <3>3
    <2> QED
      BY <2>6, <2>7, <2>8
  <1> QED
    BY <1>1, <1>3, <1>4

\* What is known of a family is still known.
LEMMA FamiliesKept ==
  ASSUME IInv, [Next]_vars, ~refused', TypeOK', CreatedIn8', InOrder'
  PROVE  Families'
  <1> USE DEF IInv
  <1>1. ASSUME NEW r \in Round, At("p8root", r)' \in 1..8 PROVE FamilyOf(r)'
    <2>1. At("p8root", r) \in 0..8
      <3>1. pc[Root(r)] \in 0..Ended /\ pc'[Root(r)] >= pc[Root(r)]
        BY Forward, Members DEF Root, P8Roles
      <3> QED
        BY <1>1, <3>1, FamilyPlaces DEF At, Root
    <2>2. CASE At("p8root", r) = 0
      <3>1. /\ parent'[Root(r)] = p1
            /\ \A role \in P8Roles \ {"p8root"} : At(role, r)' = 0
        BY <1>1, <2>2, FamilyBegins
      <3>2. \A role \in P8Roles \ {"p8root"} :
              /\ ~(pc'[Member(role, r)] > 0) /\ ~(pc'[Member(role, r)] > 1)
              /\ pc'[Member(role, r)] \notin 1..3 /\ ~(Alive(Member(role, r))')
        BY <3>1 DEF At, Alive
      <3> QED
        BY <3>1, <3>2 DEF FamilyOf, P8Roles, Root
    <2>3. CASE At("p8root", r) \in 1..8
      <3>1. At("child1", r)' > 1 => Member("child1", r) \in tutor'
        BY <2>3, FamilyTutorKept
      <3>2. /\ parent'[Root(r)] = p1
            /\ At("child1", r)' > 0 => /\ pids'["child1"] = Member("child1", r)
                                       /\ parent'[Member("child1", r)] = Root(r)
            /\ At("child2", r)' > 0 => parent'[Member("child2", r)] = Root(r)
            /\ \A role \in {"leaf2", "leaf3"} :
                 At(role, r)' > 0 => parent'[Member(role, r)] = Member("child2", r)
        BY <1>1, <2>3, FamilyLateKept
      <3>3. /\ Alive(Member("intermediate", r))' =>
                 /\ parent'[Member("intermediate", r)] = Member("child1", r)
                 /\ pids'["intermediate"] = Member("intermediate", r)
            /\ At("intermediate", r)' > 0 =>
                 pids'["intermediate"] \in {Member("intermediate", r), Member("child2", r),
                                            Member("leaf2", r), Member("leaf3", r)}
        BY <1>1, <2>3, FamilyMiddleKept
      <3>4. At("curiousleaf", r)' \in 1..3 =>
              parent'[Member("curiousleaf", r)]
                \in IF Alive(Member("intermediate", r))' THEN {Member("intermediate", r)}
                    ELSE {Member("child1", r), pids'["intermediate"]}
        BY <1>1, <2>3, FamilyAdoptionKept
      <3> QED
        BY <3>1, <3>2, <3>3, <3>4 DEF FamilyOf, At
    <2> QED
      BY <2>1, <2>2, <2>3
  <1>2. \A r \in Round : FamilyOf(r)'
    BY <1>1 DEF FamilyOf
  <1> QED
    BY <1>2 DEF Families

\* No check fails in the step.
LEMMA NeverFails ==
  ASSUME IInv, [Next]_vars, ~refused'
  PROVE  ~failed'
  BY AnyForm DEF IInv, PStep, VStep, CreateStep, QuietStep, EndStep, KillStep, Still

\* Every step keeps the invariant, but for a SYS2 that is refused.
LEMMA Inductive ==
  ASSUME IInv, [Next]_vars, ~refused'
  PROVE  IInv'
  BY TypeKept, InCodeKept, WaitsForKept, CountedKept, CreatedsKept, ValuesKept, InOrderKept,
     RoundValuesKept, MutexKept, P4FactsKept, DoneKept, RootlessKept, FamiliesKept, NeverFails
  DEF IInv

----------------------------------------------------------------------------
(* The beginning, and the theorems. *)

\* At the beginning p1 is alone, and blkp4 and blkp8 are free.
LEMMA InitInv == Init => IInv
  <1> SUFFICES ASSUME Init PROVE IInv
    OBVIOUS
  <1>0. /\ Ended \in Nat /\ Ended > 18 /\ Ended = 17 + 2 * Rounds /\ Rounds \in Nat
        /\ p1 \in Proc /\ \A r \in Round : r \in Nat /\ r > 0
    BY Lengths, RoundsAssumption, Names DEF Round
  <1>1. /\ pc \in [Proc -> 0..Ended] /\ pc[p1] = 1
        /\ \A q \in Proc : q # p1 => pc[q] = 0
    BY <1>0, Names DEF Init
  <1>2. /\ \A q \in Proc : wait[q] = "nothing" /\ parent[q] = NULL
        /\ wait \in [Proc -> {"nothing"}] /\ parent \in [Proc -> {NULL}]
    BY DEF Init
  <1>3. /\ sem \in [Semaphore -> Int]
        /\ \A s \in Semaphore : sem[s] = IF s \in {"blkp4", "blkp8"} THEN 1 ELSE 0
    BY DEF Init, InitialValue
  <1>4. /\ tutor = {} /\ handlers = {} /\ p1p2synch = FALSE /\ failed = FALSE
        /\ pids \in [{"p4", "child1", "intermediate"} -> {NULL}]
    BY DEF Init
  <1>5. \A role \in P8Roles, r \in Round : At(role, r) = 0
    BY <1>1, Names DEF At, P8Roles
  <1>6. TypeOK
    BY <1>1, <1>2, <1>3, <1>4 DEF TypeOK
  <1>7. InCode
    <2>1. \A q \in Proc : Alive(q) => pc[q] <= Size(q)
      BY <1>0, <1>1, Lengths DEF Alive
    <2> QED
      BY <1>0, <1>1, <2>1, Names DEF InCode
  <1>8. WaitsFor
    BY <1>2, NoSemaphore DEF WaitsFor
  <1>9. Counted
    <2>1. \A s \in Semaphore : Waiting(s) = {}
      BY <1>2, NoSemaphore DEF Waiting
    <2> QED
      BY <1>3, <2>1, FS_EmptySet DEF Counted
  <1>10. Created
    BY <1>1, Names DEF Created
  <1>11. CreatedIn8
    <2>1. \A r \in Round : ~Begun(r)
      BY <1>0, <1>1 DEF Begun
    <2> QED
      BY <1>5, <2>1 DEF CreatedIn8, CreatedIn, P8Roles
  <1>12. Values
    BY <1>1, <1>3, Names DEF Values, N, Semaphore
  <1>13. InOrder
    <2>1. \A r \in Round : ~Over(r)
      BY <1>0, <1>1 DEF Over
    <2> QED
      BY <1>5, <2>1 DEF InOrder, P8Roles
  <1>14. RoundValues
    <2>1. \A r \in Round : ~Now(r)
      BY <1>0, <1>1 DEF Now, Begun
    <2> QED
      BY <1>3, <2>1 DEF RoundValues, Semaphore
  <1>15. Mutex
    <2>1. \A q \in Proc : ~Inside(q)
      BY <1>1, Names DEF Inside, LeafRoles
    <2> QED
      BY <1>3, <2>1 DEF Mutex, Semaphore
  <1>16. P4Facts
    BY <1>0, <1>1, Names DEF P4Facts
  <1>17. Done
    BY <1>1, Names DEF Done
  <1>18. Families
    BY <1>5 DEF Families, FamilyOf, P8Roles
  <1>19. Rootless
    BY <1>2 DEF Rootless
  <1> QED
    BY <1>4, <1>6, <1>7, <1>8, <1>9, <1>10, <1>11, <1>12, <1>13, <1>14, <1>15, <1>16, <1>17,
       <1>18, <1>19
    DEF IInv

\* The refusal of a SYS2 is not forgotten.
LEMMA RefusedStays ==
  ASSUME refused, [Next]_vars
  PROVE  refused'
  BY DEF Next, Step, Tick, Stopped, vars, family, P, V, WaitClock, Delay, Create, Born, Refuse,
         SetTutor, SpecPassup, Terminate, Kill, KillParentFails, Trap, Checks, Synch,
         AwaitAdoption

\* Until the PCBs run out, the inductive invariant holds.
THEOREM Invariance == Spec => [](refused \/ IInv)
  <1>1. (refused \/ IInv) /\ [Next]_vars => (refused \/ IInv)'
    BY Inductive, RefusedStays
  <1> QED
    BY <1>1, InitInv, PTL DEF Spec

\* A process that is created was not alive: with a PCB for everybody no SYS2 is refused.
LEMMA NeverRefused ==
  ASSUME IInv, ~refused, Cardinality(Proc) <= MaxProc, [Next]_vars
  PROVE  ~refused'
  <1> USE DEF IInv
  <1>1. ASSUME NEW p \in Proc, Create(p) PROVE ~refused'
    <2> DEFINE c == Named(p)
               living == {q \in Proc : Alive(q)}
    <2>1. CreateAt(p, pc[p], c)
      <3>1. Ready(p) /\ Instruction(p)[1] = "Create"
        BY <1>1 DEF Create, Does
      <3> QED
        BY <3>1, AtPlace DEF Fits, Named, Argument, Turn
    <2> HIDE DEF c
    <2>2. c \in Proc /\ pc[c] = 0
      BY <2>1, CreatedOnes, Newborn
    <2>3. living \subseteq Proc \ {c}
      BY <2>2 DEF Alive
    <2> HIDE DEF living
    <2>4. Cardinality(Proc \ {c}) = Cardinality(Proc) - 1 /\ IsFiniteSet(Proc \ {c})
      BY <2>2, FiniteProc, FS_RemoveElement
    <2>5. Cardinality(living) <= Cardinality(Proc \ {c}) /\ IsFiniteSet(living)
      BY <2>3, <2>4, FS_Subset
    <2>6. Cardinality(living) \in Nat /\ Cardinality(Proc) \in Nat /\ MaxProc \in Nat
      BY <2>5, FiniteProc, FS_CardinalityType, MaxProcAssumption
    <2>7. Cardinality(living) < MaxProc
      BY <2>4, <2>5, <2>6
    <2>8. Born(p, c)
      BY <1>1, <2>7 DEF Create, c, living
    <2> QED
      BY <2>8 DEF Born
  <1>2. ASSUME ~(\E p \in Proc : Create(p)) PROVE ~refused'
    BY <1>2 DEF Next, Step, Tick, Stopped, vars, family, P, V, WaitClock, Delay, SetTutor,
            SpecPassup, Terminate, Kill, KillParentFails, Trap, Checks, Synch, AwaitAdoption
  <1> QED
    BY <1>1, <1>2

\* One PCB for each of the 8 + 8 * Rounds processes is enough for no SYS2 to be refused:
\* the code's 20 are for one round.
THEOREM PcbsSuffice == Cardinality(Proc) <= MaxProc => (Spec => []~refused)
  <1>1. ASSUME Cardinality(Proc) <= MaxProc PROVE Spec => []~refused
    <2>1. Init => IInv /\ ~refused
      BY InitInv DEF Init
    <2>2. IInv /\ ~refused /\ [Next]_vars => (IInv /\ ~refused)'
      BY <1>1, Inductive, NeverRefused
    <2> QED
      BY <2>1, <2>2, PTL DEF Spec
  <1> QED
    BY <1>1

\* Where an error stands nobody goes on: p1 ends in the trap before its own, p6
\* and p7 in their first instruction, and p4b is killed where it waits.
LEMMA NoErrorFollows ==
  ASSUME IInv
  PROVE  NoError
  <1> USE DEF IInv
  <1>1. ASSUME NEW p \in Proc, Does(p, "Error") PROVE FALSE
    <2>1. Ready(p) /\ Instruction(p)[1] = "Error"
      BY <1>1 DEF Does
    <2>2. Fits(p, pc[p], Instruction(p)) /\ wait[p] = "nothing"
      BY <2>1, AtPlace
    <2>3. ErrorAt(p, pc[p])
      BY <2>1, <2>2 DEF Fits
    <2>4. \/ p = p1 /\ pc[p] = 16 + 2 * Rounds
          \/ p = p4b /\ pc[p] = 4
          \/ p \in {p6, p7} /\ pc[p] = 2
      BY <2>3, Roles DEF ErrorAt
    <2> QED
      BY <2>2, <2>4 DEF InCode, P4Facts
  <1> QED
    BY <1>1 DEF NoError

\* Unless the PCBs run out, p2test.c's messages "error: ..." but for those about
\* measured times, and its PANICs, are never reached, in any order of the steps and for
\* any number of rounds.
THEOREM TestReportsNoError == Spec => []NoError
  <1>1. refused \/ IInv => NoError
    BY NoErrorFollows DEF NoError
  <1> QED
    BY <1>1, Invariance, PTL

----------------------------------------------------------------------------
(* When nothing can happen any more. *)

\* Not in its life.
Out(p) == pc[p] = 0 \/ pc[p] = Ended

\* Whoever lives then waits for a semaphore below zero, behind its P of it.
LEMMA Stuck ==
  ASSUME IInv, Idle, NEW p \in Proc, ~Out(p)
  PROVE  \E s \in Semaphore : /\ wait[p] = s /\ sem[s] < 0
                              /\ pc[p] \in Nat /\ pc[p] > 1 /\ PAt(p, pc[p] - 1, s)
  <1> USE DEF IInv
  <1>1. pc[p] \in 0..Ended /\ Ended \in Nat
    BY Lengths, RoundsAssumption DEF TypeOK
  <1>2. Alive(p)
    BY <1>1 DEF Out, Alive
  <1>3. wait[p] \in Semaphore
    BY <1>2 DEF Idle, Ready, TypeOK
  <1>4. pc[p] > 1 /\ PAt(p, pc[p] - 1, wait[p])
    BY <1>3 DEF WaitsFor
  <1>5. sem[wait[p]] < 0
    BY <1>3, Waiters
  <1> QED
    BY <1>1, <1>3, <1>4, <1>5

\* p8root does not wait for ever for its leaves: child1 and child2 wait for blkp8 at
\* most, intermediate has ended, and so the leaves have been created and have
\* reported.
LEMMA LeavesReport ==
  ASSUME IInv, Idle
  PROVE  ~(sem["endcreate"] < 0)
  <1> USE DEF IInv
  <1> SUFFICES ASSUME sem["endcreate"] < 0 PROVE FALSE
    OBVIOUS
  <1>1. PICK q \in Proc : wait[q] = "endcreate" /\ pc[q] > 1 /\ PAt(q, pc[q] - 1, "endcreate")
    BY Waiters DEF Semaphore
  <1>2. Role(q) = "p8root" /\ pc[q] - 1 \in 4..7 /\ pc[q] \in 0..Ended
    BY <1>1, WhoPs DEF TypeOK
  <1>3. PICK r \in Round : q = Member("p8root", r)
    BY <1>2, Roles DEF P8Roles
  <1>4. /\ Member("child1", r) \in Proc /\ Member("child2", r) \in Proc
        /\ Member("intermediate", r) \in Proc /\ Member("curiousleaf", r) \in Proc
        /\ Member("leaf1", r) \in Proc /\ Member("leaf2", r) \in Proc
        /\ Member("leaf3", r) \in Proc
        /\ \A role : Role(Member(role, r)) = role
    BY Names DEF P8Roles
  <1>5. At("p8root", r) \in 5..8
    <2>1. pc[q] \in 5..8
      BY <1>2
    <2> QED
      BY <1>3, <2>1 DEF At
  <1>6. CreatedIn(r)
    BY DEF CreatedIn8
  <1>7. At("child1", r) > 2
    <2>1. At("child1", r) > 0 /\ ~(At("child1", r) > 4)
      BY <1>5, <1>6 DEF CreatedIn, InOrder
    <2>2. ~Out(Member("child1", r))
      BY <2>1, Lengths DEF Out, At
    <2>3. PICK s \in Semaphore : /\ pc[Member("child1", r)] \in Nat
                                 /\ PAt(Member("child1", r), pc[Member("child1", r)] - 1, s)
      BY <1>4, <2>2, Stuck
    <2>4. pc[Member("child1", r)] - 1 = 3
      BY <1>4, <2>3 DEF PAt, LeafRoles
    <2> QED
      BY <2>3, <2>4 DEF At
  <1>8. At("child2", r) > 2
    <2>1. At("child2", r) > 0
      BY <1>5, <1>6 DEF CreatedIn
    <2>2. CASE ~Out(Member("child2", r))
      <3>1. PICK s \in Semaphore : /\ pc[Member("child2", r)] \in Nat
                                   /\ PAt(Member("child2", r), pc[Member("child2", r)] - 1, s)
        BY <1>4, <2>2, Stuck
      <3>2. pc[Member("child2", r)] - 1 = 3
        BY <1>4, <3>1 DEF PAt, LeafRoles
      <3> QED
        BY <3>1, <3>2 DEF At
    <2>3. CASE Out(Member("child2", r))
      BY <2>1, <2>3, Lengths DEF Out, At
    <2> QED
      BY <2>2, <2>3
  <1>9. At("intermediate", r) = Ended
    <2>1. At("intermediate", r) > 0
      BY <1>6, <1>7 DEF CreatedIn
    <2>2. Out(Member("intermediate", r))
      <3>1. \A i, s : ~PAt(Member("intermediate", r), i, s)
        BY <1>4 DEF PAt, LeafRoles
      <3> QED
        BY <1>4, <3>1, Stuck
    <2> QED
      BY <2>1, <2>2 DEF Out, At
  <1>10. /\ At("curiousleaf", r) > 0 /\ At("leaf1", r) > 0
         /\ At("leaf2", r) > 0 /\ At("leaf3", r) > 0
    BY <1>6, <1>8, <1>9, FamilyPlaces DEF CreatedIn
  <1>11. ASSUME NEW leaf \in Proc, Role(leaf) \in LeafRoles \cup {"curiousleaf"}, pc[leaf] > 0
         PROVE  pc[leaf] > (IF Role(leaf) = "curiousleaf" THEN 3 ELSE 1)
    <2>1. CASE Out(leaf)
      BY <1>11, <2>1, Lengths DEF Out
    <2>2. CASE ~Out(leaf)
      <3>1. PICK s \in Semaphore : pc[leaf] \in Nat /\ PAt(leaf, pc[leaf] - 1, s)
        BY <2>2, Stuck
      <3>2. pc[leaf] - 1 = IF Role(leaf) = "curiousleaf" THEN 4 ELSE 2
        BY <1>11, <3>1 DEF PAt, LeafRoles
      <3> QED
        BY <3>1, <3>2
    <2> QED
      BY <2>1, <2>2
  <1>12. Reported(r) = 4
    <2>1. At("curiousleaf", r) > 3
      BY <1>4, <1>10, <1>11 DEF At
    <2>2. At("leaf1", r) > 1 /\ At("leaf2", r) > 1 /\ At("leaf3", r) > 1
      BY <1>4, <1>10, <1>11 DEF At, LeafRoles
    <2> QED
      BY <2>1, <2>2, ReportedType
  <1>13. sem["endcreate"] = Reported(r) - Taken(r)
    BY <1>5, OneRound DEF RoundValues
  <1> QED
    BY <1>12, <1>13, ReportedType

\* Nobody waits for ever for blkp8: who holds it waits for nothing but leaves.
LEMMA MutexIsFreed ==
  ASSUME IInv, Idle
  PROVE  ~(sem["blkp8"] < 0)
  <1> USE DEF IInv
  <1> SUFFICES ASSUME sem["blkp8"] < 0 PROVE FALSE
    OBVIOUS
  <1>1. PICK q \in Proc : Inside(q)
    BY DEF Mutex
  <1>2. pc[q] \in 0..Ended /\ Ended \in Nat /\ Ended > 18 /\ pc[q] \in 1..8
    BY <1>1, Lengths, RoundsAssumption DEF TypeOK, Inside
  <1>3. ~Out(q)
    BY <1>2 DEF Out
  <1>4. PICK s \in Semaphore : wait[q] = s /\ sem[s] < 0 /\ PAt(q, pc[q] - 1, s)
    BY <1>3, Stuck
  <1>5. s # "blkp8" /\ s # "endcreate"
    BY <1>1, <1>4, LeavesReport DEF Inside
  <1>6. Role(q) \in P8Roles
    BY <1>1 DEF Inside, P8Roles, LeafRoles
  <1> QED
    BY <1>4, <1>5, <1>6 DEF PAt, P8Roles

\* So nobody of a family lives.
LEMMA FamiliesAreOut ==
  ASSUME IInv, Idle, NEW p \in Proc, Role(p) \in P8Roles
  PROVE  Out(p)
  <1> SUFFICES ASSUME ~Out(p) PROVE FALSE
    OBVIOUS
  <1>1. PICK s \in Semaphore : sem[s] < 0 /\ PAt(p, pc[p] - 1, s)
    BY Stuck
  <1>2. s \in {"blkp8", "endcreate"}
    BY <1>1 DEF PAt, P8Roles
  <1> QED
    BY <1>1, <1>2, LeavesReport, MutexIsFreed

\* p1 has ended: every semaphore it waits for has had its V.
LEMMA FirstEnds ==
  ASSUME IInv, Idle
  PROVE  pc[p1] = Ended
  <1> USE DEF IInv
  <1>0. /\ p1 \in Proc /\ p2 \in Proc /\ p3 \in Proc /\ p4 \in Proc /\ p4b \in Proc
        /\ p5 \in Proc
        /\ pc[p1] \in 0..Ended /\ pc[p2] \in 0..Ended /\ pc[p3] \in 0..Ended
        /\ pc[p4] \in 0..Ended /\ pc[p4b] \in 0..Ended /\ pc[p5] \in 0..Ended
        /\ Ended \in Nat /\ Ended > 18
    BY Names, Lengths, RoundsAssumption DEF TypeOK
  <1> SUFFICES ASSUME pc[p1] # Ended PROVE FALSE
    OBVIOUS
  <1>1. ~Out(p1)
    BY DEF Out, Created
  <1>2. PICK s \in Semaphore : /\ wait[p1] = s /\ sem[s] < 0
                               /\ pc[p1] > 1 /\ PAt(p1, pc[p1] - 1, s)
    BY <1>0, <1>1, Stuck
  <1>3. \/ pc[p1] = 6 /\ s = "endp2"
        \/ pc[p1] = 9 /\ s = "endp3"
        \/ pc[p1] = 14 /\ s = "endp5"
        \/ pc[p1] = 15 /\ s = "blkp4"
        \/ \E r \in Round : pc[p1] = 15 + 2 * r /\ s = "endp8"
    BY <1>0, <1>2, Names DEF PAt, Round, LeafRoles
  <1>4. CASE pc[p1] = 6 /\ s = "endp2"
    <2>1. pc[p2] \in 1..7
      BY <1>0, <1>2, <1>4 DEF Values, N, Created
    <2>2. ~Out(p2)
      BY <1>0, <2>1 DEF Out
    <2>3. PICK t \in Semaphore : sem[t] < 0 /\ PAt(p2, pc[p2] - 1, t)
      BY <1>0, <2>2, Stuck
    <2>4. \/ pc[p2] = 2 /\ t = "startp2"
          \/ pc[p2] = 4 /\ t = "s"
      BY <1>0, <2>3, Names DEF PAt, LeafRoles
    <2> QED
      BY <1>4, <2>3, <2>4 DEF Values, N
  <1>5. CASE pc[p1] = 9 /\ s = "endp3"
    <2>1. pc[p3] \in 1..4
      BY <1>0, <1>2, <1>5 DEF Values, N, Created
    <2>2. ~Out(p3)
      BY <1>0, <2>1 DEF Out
    <2>3. \A i, t : ~PAt(p3, i, t)
      BY Names DEF PAt, LeafRoles
    <2> QED
      BY <1>0, <2>2, <2>3, Stuck
  <1>6. CASE pc[p1] = 14 /\ s = "endp5"
    <2>1. pc[p5] \in 1..10
      BY <1>0, <1>2, <1>6 DEF Values, N, Created
    <2>2. ~Out(p5)
      BY <1>0, <2>1 DEF Out
    <2>3. PICK t \in Semaphore : sem[t] < 0 /\ PAt(p5, pc[p5] - 1, t)
      BY <1>0, <2>2, Stuck
    <2>4. pc[p5] = 8 /\ t = "endp4"
      BY <1>0, <2>3, Names DEF PAt, LeafRoles
    <2>5. pc[p4] \in 1..8
      BY <1>0, <1>6, <2>3, <2>4 DEF Values, N, Created
    <2>6. ~Out(p4)
      BY <1>0, <2>5 DEF Out
    <2>7. PICK u \in Semaphore : sem[u] < 0 /\ PAt(p4, pc[p4] - 1, u)
      BY <1>0, <2>6, Stuck
    <2>8. \/ pc[p4] = 4 /\ u = "blkp4"
          \/ pc[p4] = 5 /\ u = "synp4"
          \/ pc[p4] = 7 /\ u = "synp4"
      BY <1>0, <2>7, Names DEF PAt, LeafRoles
    <2>9. CASE pc[p4] = 4 /\ u = "blkp4"
      <3>1. pc[p4b] = 0
        BY <1>0, <2>9 DEF Created
      <3> QED
        BY <1>6, <2>4, <2>7, <2>9, <3>1 DEF Values, N
    <2>10. CASE pc[p4] = 5 /\ u = "synp4"
      BY <2>7, <2>10 DEF Values, N
    <2>11. CASE pc[p4] = 7 /\ u = "synp4"
      <3>1. pc[p4b] \in 1..2
        BY <1>0, <2>7, <2>11 DEF Values, N, Created
      <3>2. ~Out(p4b)
        BY <1>0, <3>1 DEF Out
      <3>3. PICK v \in Semaphore : PAt(p4b, pc[p4b] - 1, v)
        BY <1>0, <3>2, Stuck
      <3>4. pc[p4b] - 1 = 3
        BY <3>3, Names DEF PAt, LeafRoles
      <3> QED
        BY <3>1, <3>4
    <2> QED
      BY <2>8, <2>9, <2>10, <2>11
  <1>7. CASE pc[p1] = 15 /\ s = "blkp4"
    <2>1. pc[p5] > 10
      BY <1>7, Signalled DEF Past
    <2>2. pc[p4] > 8
      BY <1>0, <2>1, Signalled DEF Past
    <2>3. pc[p4b] = Ended
      BY <1>0, <2>2 DEF P4Facts
    <2> QED
      BY <1>0, <1>2, <1>7, <2>1, <2>2, <2>3 DEF Values, N
  <1>8. ASSUME NEW r \in Round, pc[p1] = 15 + 2 * r, s = "endp8" PROVE FALSE
    <2>1. Now(r)
      BY <1>8 DEF Now, Begun, Over, Round
    <2>2. pc[p1] > 14 + 2 * r
      BY <1>8 DEF Round
    <2>3. sem["endp8"] = N(At("p8root", r) > 9) - N(pc[p1] > 14 + 2 * r)
      BY <2>1 DEF RoundValues
    <2>4. ~(At("p8root", r) > 9)
      BY <1>2, <1>8, <2>2, <2>3 DEF N
    <2>5. At("p8root", r) > 0
      BY <2>1 DEF CreatedIn8, CreatedIn, Now
    <2>6. ~Out(Root(r)) /\ Root(r) \in Proc /\ Role(Root(r)) \in P8Roles
      BY <1>0, <2>4, <2>5, Members DEF Out, At, Root, P8Roles
    <2> QED
      BY <2>6, FamiliesAreOut
  <1> QED
    BY <1>3, <1>4, <1>5, <1>6, <1>7, <1>8

\* And with p1 everybody.
LEMMA EverybodyEnds ==
  ASSUME IInv, Idle
  PROVE  \A p \in Proc : pc[p] = Ended
  <1> USE DEF IInv
  <1>0. /\ p1 \in Proc /\ p2 \in Proc /\ p3 \in Proc /\ p4 \in Proc /\ p4b \in Proc
        /\ p5 \in Proc /\ p6 \in Proc /\ p7 \in Proc
        /\ pc[p2] \in 0..Ended /\ pc[p3] \in 0..Ended /\ pc[p4] \in 0..Ended
        /\ pc[p5] \in 0..Ended /\ pc[p6] \in 0..Ended /\ pc[p7] \in 0..Ended
        /\ Ended \in Nat /\ Ended = 17 + 2 * Rounds /\ Ended > 18 /\ Rounds \in Nat
    BY Names, Lengths, RoundsAssumption DEF TypeOK
  <1>1. pc[p1] = Ended
    BY FirstEnds
  <1>2. /\ pc[p2] > 0 /\ pc[p3] > 0 /\ pc[p4] > 0 /\ pc[p5] > 0 /\ pc[p6] > 0 /\ pc[p7] > 0
    BY <1>0, <1>1 DEF Created
  <1>3. ASSUME NEW p \in Proc, pc[p] # Ended, pc[p] > 0
        PROVE  \E s \in Semaphore : sem[s] < 0 /\ PAt(p, pc[p] - 1, s)
    <2>1. ~Out(p)
      BY <1>3 DEF Out
    <2> QED
      BY <2>1, Stuck
  <1>4. pc[p2] = Ended
    <2> SUFFICES ASSUME pc[p2] # Ended PROVE FALSE
      OBVIOUS
    <2>1. PICK s \in Semaphore : sem[s] < 0 /\ PAt(p2, pc[p2] - 1, s)
      BY <1>0, <1>2, <1>3
    <2>2. \/ pc[p2] = 2 /\ s = "startp2"
          \/ pc[p2] = 4 /\ s = "s"
      BY <1>0, <2>1, Names DEF PAt, LeafRoles
    <2> QED
      BY <1>0, <1>1, <2>1, <2>2 DEF Values, N
  <1>5. pc[p3] = Ended /\ pc[p6] = Ended /\ pc[p7] = Ended
    <2>1. \A i, s : ~PAt(p3, i, s) /\ ~PAt(p6, i, s) /\ ~PAt(p7, i, s)
      BY Names DEF PAt, LeafRoles
    <2> QED
      BY <1>0, <1>2, <1>3, <2>1
  <1>6. pc[p5] = Ended
    <2>1. pc[p5] > 10
      BY <1>0, <1>1, Signalled DEF Past
    <2>2. \A s : ~PAt(p5, pc[p5] - 1, s)
      BY <1>0, <2>1, Names DEF PAt, LeafRoles
    <2> QED
      BY <1>0, <1>2, <1>3, <2>2
  <1>7. pc[p4] = Ended
    <2>1. pc[p4] > 8
      BY <1>0, <1>6, Signalled DEF Past
    <2>2. \A s : ~PAt(p4, pc[p4] - 1, s)
      BY <1>0, <2>1, Names DEF PAt, LeafRoles
    <2> QED
      BY <1>0, <1>2, <1>3, <2>2
  <1>8. pc[p4b] = Ended
    BY <1>0, <1>7 DEF P4Facts
  <1>9. ASSUME NEW p \in Proc, Role(p) \in P8Roles PROVE pc[p] = Ended
    <2>1. PICK r \in Round : p = Member(Role(p), r)
      BY <1>9, Roles
    <2>2. ASSUME NEW role \in P8Roles, At(role, r) > 0 PROVE At(role, r) = Ended
      <3>1. Out(Member(role, r))
        BY Members, FamiliesAreOut
      <3> QED
        BY <2>2, <3>1 DEF Out, At
    <2>3. Over(r) /\ CreatedIn(r)
      BY <1>0, <1>1 DEF Over, Round, CreatedIn8
    <2>4. At("p8root", r) = Ended
      BY <2>2, <2>3, FamilyPlaces DEF InOrder, P8Roles
    <2>5. At("child1", r) = Ended /\ At("child2", r) = Ended
      BY <2>2, <2>3, <2>4, FamilyPlaces DEF CreatedIn, P8Roles
    <2>6. At("intermediate", r) = Ended /\ At("leaf2", r) = Ended /\ At("leaf3", r) = Ended
      BY <2>2, <2>3, <2>5, FamilyPlaces DEF CreatedIn, P8Roles
    <2>7. At("curiousleaf", r) = Ended /\ At("leaf1", r) = Ended
      BY <2>2, <2>3, <2>6, FamilyPlaces DEF CreatedIn, P8Roles
    <2> QED
      BY <1>9, <2>1, <2>4, <2>5, <2>6, <2>7 DEF At, P8Roles
  <1> QED
    BY <1>1, <1>4, <1>5, <1>6, <1>7, <1>8, <1>9, WhoIsWho

\* What is left of the semaphores then.
LEMMA EndsCleanFollows ==
  ASSUME IInv
  PROVE  EndsClean
  <1> USE DEF IInv
  <1> SUFFICES ASSUME Idle
               PROVE  /\ \A p \in Proc : pc[p] = Ended
                      /\ sem = [InitialValue EXCEPT !["testsem"] = 1, !["blkp4"] = 0]
    BY DEF EndsClean
  <1>1. \A p \in Proc : pc[p] = Ended
    BY EverybodyEnds
  <1>2. /\ pc[p1] = Ended /\ pc[p2] = Ended /\ pc[p3] = Ended /\ pc[p4] = Ended
        /\ pc[p4b] = Ended /\ pc[p5] = Ended
        /\ Ended \in Nat /\ Ended > 18 /\ Ended = 17 + 2 * Rounds /\ Rounds \in Nat
    BY <1>1, Names, Lengths, RoundsAssumption
  <1>3. /\ sem["testsem"] = 1 /\ sem["startp2"] = 0 /\ sem["s"] = 0 /\ sem["endp2"] = 0
        /\ sem["endp3"] = 0 /\ sem["synp4"] = 0 /\ sem["endp4"] = 0 /\ sem["endp5"] = 0
    BY <1>2 DEF Values, N
  <1>4. sem["blkp4"] = 0
    BY <1>2 DEF Values, N
  <1>5. sem["endp8"] = 0 /\ sem["endcreate"] = 0
    <2>1. \A r \in Round : ~Now(r)
      BY <1>2 DEF Now, Over, Round
    <2> QED
      BY <2>1 DEF RoundValues
  <1>6. sem["blkp8"] = 1
    <2>1. \A p \in Proc : ~Inside(p)
      BY <1>1, <1>2 DEF Inside
    <2> QED
      BY <2>1 DEF Mutex
  <1>7. \A s \in Semaphore :
          sem[s] = [InitialValue EXCEPT !["testsem"] = 1, !["blkp4"] = 0][s]
    BY <1>3, <1>4, <1>5, <1>6 DEF InitialValue, Semaphore
  <1>8. /\ sem \in [Semaphore -> Int]
        /\ [InitialValue EXCEPT !["testsem"] = 1, !["blkp4"] = 0] \in [Semaphore -> Int]
    <2> DEFINE once == [InitialValue EXCEPT !["testsem"] = 1]
    <2>1. InitialValue \in [Semaphore -> Int]
      BY DEF InitialValue
    <2>2. ASSUME NEW f \in [Semaphore -> Int], NEW s, NEW n \in Int
          PROVE  [f EXCEPT ![s] = n] \in [Semaphore -> Int]
      OBVIOUS
    <2>3. [once EXCEPT !["blkp4"] = 0] \in [Semaphore -> Int]
      <3>1. once \in [Semaphore -> Int]
        BY <2>1, <2>2
      <3> HIDE DEF once
      <3> QED
        BY <2>2, <3>1
    <2>4. sem \in [Semaphore -> Int]
      BY DEF TypeOK
    <2> QED
      BY <2>3, <2>4
  <1> QED
    BY <1>1, <1>7, <1>8

\* When nothing can happen any more, and the PCBs have not run out, everybody has ended,
\* p1 with "TTFN", and every semaphore has its last value, for any number of rounds: no
\* order of the steps, nobody's killing and nobody's adoption, or lack of it, leaves
\* somebody waiting for ever.
THEOREM TestEndsClean == Spec => []EndsClean
  <1>1. refused \/ IInv => EndsClean
    BY EndsCleanFollows DEF EndsClean
  <1> QED
    BY <1>1, Invariance, PTL

=============================================================================
