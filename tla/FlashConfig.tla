------------------------------ MODULE FlashConfig ------------------------------
(***************************************************************************)
(* The configuration store (configuration.c): the variables declared with  *)
(* CONFIG_VARIABLE are kept in one flash page as a list of records, each a *)
(* pointer to the variable's descriptor and a pointer to its data, which   *)
(* lies behind the list.  The flash is erased as a page and programmed by  *)
(* half-words; power may fail between any two of these operations.         *)
(***************************************************************************)
EXTENDS Integers, Sequences

CONSTANTS VarCount,    \* descriptors between the two linker symbols
          Len2,        \* half-words of a variable (dataLen rounded up, / 2)
          Values,      \* what a variable may be set to: sequences of Len2 half-words
          Default,     \* [Vars -> Values]: the default value areas
          PageSize     \* half-words of the page

Vars == 1..VarCount

Erased == 65535        \* a half-word after erasing the page
HalfWords == 0..Erased

(* The page of 1 kB is the last one before 0x08010000. *)
ASSUME SizeAssumption == /\ VarCount \in Nat /\ Len2 \in Nat \ {0}
                         /\ PageSize \in Nat /\ PageSize <= 512
                         /\ PageSize >= 4 * (VarCount + 1) + VarCount * Len2
ASSUME ValueAssumption == /\ Values \subseteq [1..Len2 -> HalfWords]
                          /\ Default \in [Vars -> Values]

VARIABLES
  flash,    \* the page: [0..PageSize-1 -> half-word]
  ram,      \* the variables' values in RAM
  power,    \* FALSE: power is off, RAM is void
  pc,       \* "read", "check", "erase", "write", "idle"
  at,       \* half-words programmed so far by the update that runs
  wanted    \* per variable, every value the firmware had in RAM when it
            \* began to update the flash since the variable was last stored

vars == <<flash, ram, power, pc, at, wanted>>

Addresses == 0..(PageSize - 1)
Records   == 0..(PageSize \div 4 - 1)

Steps == {"read", "check", "erase", "write", "idle"}

TypeOK ==
  /\ flash \in [Addresses -> HalfWords]
  /\ ram \in [Vars -> [1..Len2 -> HalfWords]]
  /\ power \in BOOLEAN
  /\ pc \in Steps
  /\ at \in 0..PageSize
  /\ wanted \in [Vars -> SUBSET [1..Len2 -> HalfWords]]

(* Pointers are pairs of half-words, low one first.  The descriptors are in   *)
(* the code, the page begins at 0x0800FC00; "at" addresses half-words.        *)
Null    == <<0, 0>>
AllOnes == <<Erased, Erased>>
DescriptorPtr(v) == <<4096 + 20 * v, 2048>>
PagePtr(a)       == <<64512 + 2 * a, 2048>>

(* IS_POINTER_IN_CONFIG_MEMORY *)
InPage(p) == \E a \in Addresses : p = PagePtr(a)
Address(p) == (p[1] - 64512) \div 2

(* A page out of the factory or the programmer is erased. *)
Init ==
  /\ flash = [a \in Addresses |-> Erased]
  /\ ram = Default
  /\ power = FALSE
  /\ pc = "read"
  /\ at = 0
  /\ wanted = [v \in Vars |-> {}]

-------------------------------------------------------------------------------
(* What config_updateToFlash programs, half-word after half-word: for each   *)
(* variable its record, then its data; a record of NULLs ends the list.      *)

Mistake_DataStart(v) == 4 * VarCount + Len2 * (v - 1)     \* for DataStart

DataStart(v) == 4 * (VarCount + 1) + Len2 * (v - 1)

PerVar == 4 + Len2
WriteCount == VarCount * PerVar + 4

Record(v) == IF v > VarCount THEN Null \o Null
                             ELSE DescriptorPtr(v) \o PagePtr(DataStart(v))

Mistake_Program(k) ==                                     \* for Program
  LET v == k \div PerVar + 1
      i == k % PerVar
  IN  IF i < 4 THEN [addr |-> 4 * (v - 1) + i, val |-> Record(v)[i + 1]]
               ELSE [addr |-> DataStart(v) + i - 4, val |-> ram[1][i - 3]]

(* Address and value of the k-th half-word programmed, counted from 0. *)
Program(k) ==
  LET v == k \div PerVar + 1
      i == k % PerVar
  IN  IF i < 4 THEN [addr |-> 4 * (v - 1) + i, val |-> Record(v)[i + 1]]
               ELSE [addr |-> DataStart(v) + i - 4, val |-> ram[v][i - 3]]

-------------------------------------------------------------------------------
(* Mistakes a change of configuration.c could make; see the definition named *)
(* beside each.                                                              *)

Mistake_Check ==                                          \* for Check
  /\ power /\ pc = "check"
  /\ pc' = "idle"
  /\ UNCHANGED <<flash, ram, power, at, wanted>>

Mistake_Finish ==                                         \* for Finish
  /\ power /\ pc = "write"
  /\ at = WriteCount + 1
  /\ pc' = "idle"
  /\ at' = 0
  /\ wanted' = [v \in Vars |-> {ram[v]}]
  /\ UNCHANGED <<flash, ram, power>>

-------------------------------------------------------------------------------
(* Reading the page. *)

Word(a, i) == flash[4 * a + i]
DescField(a) == <<Word(a, 0), Word(a, 1)>>
DataField(a) == <<Word(a, 2), Word(a, 3)>>

(* The guard keeper, or an entry nobody wrote: the list ends here. *)
EndsList(a) == \/ DescField(a) \in {Null, AllOnes}
               \/ DataField(a) \in {Null, AllOnes}

InList(a) == \A b \in Records : b <= a => ~EndsList(b)

Matches(a, v) == /\ InList(a)
                 /\ DescField(a) = DescriptorPtr(v)
                 /\ InPage(DataField(a))

HasRecord(v) == \E a \in Records : Matches(a, v)

(* getRecordDataPtr: of several records of a variable the last one counts.   *)
StoredAt(v) == LET a == CHOOSE a \in Records :
                          Matches(a, v) /\ \A b \in Records : Matches(b, v) => b <= a
               IN  Address(DataField(a))

Mistake_Load(v) ==                                        \* for Load
  IF HasRecord(v) THEN [i \in 1..(Len2 + 1) |-> flash[StoredAt(v) + i - 1]]
                  ELSE Default[v]

Load(v) == IF HasRecord(v) THEN [i \in 1..Len2 |-> flash[StoredAt(v) + i - 1]]
                           ELSE Default[v]

(* config_needsUpdate *)
NeedsUpdate == \E v \in Vars : ~HasRecord(v) \/ Load(v) # ram[v]

-------------------------------------------------------------------------------
PowerUp ==
  /\ ~power
  /\ power' = TRUE
  /\ pc' = "read"
  /\ UNCHANGED <<flash, ram, at, wanted>>

(* Power goes: RAM is lost, the flash keeps what was programmed. *)
PowerLoss ==
  /\ power
  /\ power' = FALSE
  /\ pc' = "read" /\ at' = 0
  /\ ram' = Default
  /\ UNCHANGED <<flash, wanted>>

(* config_readFromFlash, called once by configuration_init *)
ReadFromFlash ==
  /\ power /\ pc = "read"
  /\ ram' = [v \in Vars |-> Load(v)]
  /\ pc' = "check"
  /\ UNCHANGED <<flash, power, at, wanted>>

(* config_updateToFlash up to the decision *)
Check ==
  /\ power /\ pc = "check"
  /\ IF NeedsUpdate
       THEN /\ pc' = "erase"
            /\ wanted' = [v \in Vars |-> wanted[v] \cup {ram[v]}]
       ELSE /\ pc' = "idle"
            /\ wanted' = [v \in Vars |-> {ram[v]}]
  /\ UNCHANGED <<flash, ram, power, at>>

Erase ==
  /\ power /\ pc = "erase"
  /\ flash' = [a \in Addresses |-> Erased]
  /\ at' = 0
  /\ pc' = "write"
  /\ UNCHANGED <<ram, power, wanted>>

(* writeWordsToFlash, one half-word.  The hardware refuses to program a      *)
(* half-word that is not erased (unless to 0).                               *)
Write ==
  /\ power /\ pc = "write"
  /\ at < WriteCount
  /\ LET w == Program(at) IN
       flash' = IF flash[w.addr] = Erased \/ w.val = 0
                  THEN [flash EXCEPT ![w.addr] = w.val] ELSE flash
  /\ at' = at + 1
  /\ UNCHANGED <<ram, power, pc, wanted>>

Finish ==
  /\ power /\ pc = "write"
  /\ at = WriteCount
  /\ pc' = "idle"
  /\ at' = 0
  /\ wanted' = [v \in Vars |-> {ram[v]}]
  /\ UNCHANGED <<flash, ram, power>>

(* setLowerVoltageEndoint, setUpperVoltageEndoint: assign, then update.      *)
Set(v, x) ==
  /\ power /\ pc = "idle"
  /\ ram' = [ram EXCEPT ![v] = x]
  /\ pc' = "check"
  /\ UNCHANGED <<flash, power, at, wanted>>

Running == ReadFromFlash \/ Check \/ Erase \/ Write \/ Finish

Next == PowerUp \/ PowerLoss \/ Running \/ \E v \in Vars, x \in Values : Set(v, x)

Spec == Init /\ [][Next]_vars

(* The board runs while it has power, and somebody turns it on again. *)
FairSpec == Spec /\ WF_vars(Running) /\ WF_vars(PowerUp)

-------------------------------------------------------------------------------
(* Property StoredWhenIdle: when no update runs, the flash holds a record of *)
(* every variable, and reading it back gives what is in RAM - whatever a     *)
(* power loss left in the page before.                                       *)
StoredWhenIdle ==
  pc = "idle" => \A v \in Vars : HasRecord(v) /\ Load(v) = ram[v]

(* Property ProgramsErased: an update programs each half-word once: records, *)
(* data areas and the end of the list do not overlap.                        *)
ProgramsErased ==
  power /\ pc = "write" /\ at < WriteCount => flash[Program(at).addr] = Erased

(* Property TornByErasureOnly: what boots is a default, a value an update    *)
(* was to store, or such a value with some of its half-words still erased;   *)
(* never a mixture of values or of variables.                                *)
TornByErasureOnly ==
  \A v \in Vars :
    \/ Load(v) = Default[v]
    \/ \E x \in wanted[v] : \A i \in 1..Len2 : Load(v)[i] \in {x[i], Erased}

-------------------------------------------------------------------------------
(* The inductive invariant behind these properties. *)

(* Of the page's list of records only half-words may be missing, and it ends  *)
(* where it should: an update that was torn leaves nothing else behind.       *)
Layout ==
  /\ \A a \in 0..(VarCount - 1), i \in 0..3 : Word(a, i) \in {Record(a + 1)[i + 1], Erased}
  /\ EndsList(VarCount)

(* The data of a variable whose record was begun is of one wanted value.      *)
Data(v) ==
  \/ Word(v - 1, 0) = Erased
  \/ \E x \in wanted[v] :
       \A i \in 1..Len2 : flash[DataStart(v) + i - 1] \in {x[i], Erased}

(* While an update writes, the page is exactly what it wrote so far.          *)
Prefix ==
  /\ at <= WriteCount
  /\ \A k \in 0..(WriteCount - 1) :
       flash[Program(k).addr] = IF k < at THEN Program(k).val ELSE Erased

(* Property FInv: in every state, also after power failed anywhere, the page  *)
(* is a list that the reader ends at the right place, each of its data areas  *)
(* is of one value, and an update that runs has written what it should.       *)
FInv ==
  /\ TypeOK
  /\ Layout
  /\ \A v \in Vars : Data(v)
  /\ pc \in {"erase", "write"} => \A v \in Vars : ram[v] \in wanted[v]
  /\ pc = "write" => Prefix
  /\ StoredWhenIdle

-------------------------------------------------------------------------------
(* Property LegitValues, as config_readFromFlash documents it: "retreive the *)
(* configuration values and put them into the desired space in the RAM": a   *)
(* variable only ever has its default or a value that was configured.        *)
LegitValues ==
  power /\ pc # "read" => \A v \in Vars : ram[v] \in Values

(* Property SettlesIdle: if power stays, every update comes to its end.      *)
SettlesIdle == <>[]power => []<>(pc = "idle")
===============================================================================
