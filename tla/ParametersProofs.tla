---------------------------- MODULE ParametersProofs ----------------------------
(***************************************************************************)
(* The pages of the EEPROM: however many there are, whatever is written    *)
(* and wherever the device is reset, no parameter gets a second page, and  *)
(* there is always one for a parameter that has none; what config_read     *)
(* gives back is what config_write was given; and a reset mixes nothing.   *)
(***************************************************************************)
EXTENDS Parameters, FiniteSetTheorems, FunctionTheorems, SequenceTheorems, TLAPS

USE ParametersAssumption

(* A nonempty set of slots has a first one.  Without one the numbers below *)
(* all of them would be closed under successor: an injection of a finite   *)
(* set into itself that misses 0.                                          *)
LEMMA Least ==
  ASSUME NEW n \in Nat, NEW slots \in SUBSET (1..n), slots # {}
  PROVE  \E slot \in slots : \A other \in slots : slot <= other
<1> SUFFICES ASSUME \A slot \in slots : \E other \in slots : other < slot
             PROVE  FALSE
  OBVIOUS
<1> DEFINE below == {k \in 0..n : \A slot \in slots : k < slot}
           next  == [k \in below |-> k + 1]
<1>1. IsFiniteSet(below)
  <2>1. below \in SUBSET (0..n) /\ IsFiniteSet(0..n)
    BY FS_Interval
  <2> QED BY <2>1, FS_Subset
<1>2. ASSUME NEW k \in below PROVE k + 1 \in below
  <2>1. k + 1 \notin slots
    <3> SUFFICES ASSUME k + 1 \in slots PROVE FALSE
      OBVIOUS
    <3>1. PICK other \in slots : other < k + 1
      OBVIOUS
    <3> QED BY <3>1
  <2>2. \A slot \in slots : k < slot /\ slot # k + 1 /\ slot \in 1..n
    BY <2>1
  <2>3. k \in 0..n
    OBVIOUS
  <2>4. ASSUME NEW slot \in slots PROVE k + 1 < slot
    <3>1. slot \in Int /\ k \in Int /\ k < slot /\ slot # k + 1
      BY <2>2, <2>3
    <3> QED BY <3>1
  <2>5. PICK slot \in slots : TRUE
    OBVIOUS
  <2>6. slot \in 1..n /\ k + 1 < slot
    BY <2>2, <2>4
  <2>7. k + 1 \in 0..n
    BY <2>3, <2>6
  <2> QED BY <2>4, <2>7
<1>3. next \in Injection(below, below)
  <2>1. next \in [below -> below]
    BY <1>2
  <2>2. \A k, other \in below : next[k] = next[other] => k = other
    OBVIOUS
  <2> HIDE DEF below, next
  <2> QED BY <2>1, <2>2, Fun_IsInj
<1>4. next \in Surjection(below, below)
  BY <1>1, <1>3, FS_Injection
<1>5. 0 \in below
  OBVIOUS
<1>6. PICK k \in below : next[k] = 0
  BY <1>4, <1>5 DEF Surjection
<1> QED
  BY <1>6

(* The first of some slots is one of them.                                 *)
LEMMA FirstIsOne ==
  ASSUME NEW slots \in SUBSET (1..Slots), slots # {}
  PROVE  First(slots) \in slots
BY Least DEF First

(* The pages of a parameter. *)
LEMMA PagesType ==
  ASSUME NEW field \in Fields
  PROVE  /\ 1 \in DOMAIN PagesOf(field)
         /\ DOMAIN PagesOf(field) \subseteq Nat
         /\ \A k \in DOMAIN PagesOf(field) : PagesOf(field)[k] \in PageTypes \ {"EMPTY"}
<1>1. field # "EMPTY"
  BY DEF Fields
<1>2. /\ 1 \in DOMAIN PagesOf(field) /\ DOMAIN PagesOf(field) \subseteq Nat
      /\ \A k \in DOMAIN PagesOf(field) : PagesOf(field)[k] # "EMPTY"
  BY <1>1 DEF PagesOf
<1> QED
  BY <1>2 DEF PageTypes

-------------------------------------------------------------------------------
(* The pages have types, the one being programmed keeps its own or was     *)
(* empty, and what is left to write are pages of parameters.               *)
PagesOK ==
  /\ DOMAIN eeprom = 1..Slots
  /\ eeprom = [slot \in 1..Slots |-> eeprom[slot]]
  /\ \A slot \in 1..Slots : eeprom[slot].type \in PageTypes \cup {"EMPTY"}

ProgrammingOK ==
  programming # NoPage =>
    /\ programming.slot \in 1..Slots
    /\ programming.old.type \in {"EMPTY", eeprom[programming.slot].type}

Allowed(name, field, value) ==
  /\ field \in Static => name \in {"STATIC", "OFF"}
  /\ field = "SSID" => name = "SSID"
  /\ name = "STATIC" => value # Blank

Steps(name, values) ==
  {step \in [field : Fields, page : Nat, value : values] :
     step.page \in DOMAIN PagesOf(step.field) /\ Allowed(name, step.field, step.value)}

StepsOK(name, pages) == \E values : pages \in Seq(Steps(name, values))

RestOK ==
  /\ link \in {"STOPPED", "DISCONNECTED", "CONNECTED"} /\ misled \in BOOLEAN
  /\ DOMAIN ram = Fields /\ DOMAIN cached = Static /\ DOMAIN chip = Static

ParametersInv ==
  PagesOK /\ ProgrammingOK /\ StepsOK(command, todo) /\ RestOK /\ UniquePages

(* The argument for Room: slots that all hold another type, no two the     *)
(* same, would be more than there are other types.                         *)
LEMMA RoomForAll ==
  ASSUME PagesOK, UniquePages
  PROVE  Room
<1> SUFFICES ASSUME NEW type \in PageTypes,
                    \A slot \in 1..Slots : eeprom[slot].type \notin {type, "EMPTY"}
             PROVE  FALSE
  BY DEF Room, SlotsWith
<1> DEFINE others == PageTypes \ {type}
           typeOf == [slot \in 1..Slots |-> eeprom[slot].type]
<1>1. typeOf \in [1..Slots -> others]
  BY DEF PagesOK
<1>2. typeOf \in Injection(1..Slots, others)
  BY <1>1 DEF UniquePages, Injection, IsInjective
<1>3. IsFiniteSet(others) /\ Cardinality(others) = Cardinality(PageTypes) - 1
  BY FS_RemoveElement
<1>4. Cardinality(1..Slots) = Slots /\ Cardinality(PageTypes) \in Nat
  BY FS_Interval, FS_CardinalityType
<1>5. Cardinality(1..Slots) <= Cardinality(others)
  BY <1>2, <1>3, FS_Injection
<1> QED
  BY <1>3, <1>4, <1>5

(* The slot a page is written to has the page of its type, or none.        *)
LEMMA SlotType ==
  ASSUME PagesOK, UniquePages, NEW type \in PageTypes
  PROVE  /\ SlotFor(type) \in 1..Slots
         /\ \/ eeprom[SlotFor(type)].type = type
            \/ /\ eeprom[SlotFor(type)].type = "EMPTY"
               /\ \A slot \in 1..Slots : eeprom[slot].type # type
<1>1. SlotsWith(type) \cup SlotsWith("EMPTY") # {}
  BY RoomForAll DEF Room
<1>2. CASE SlotsWith(type) # {}
  <2>1. SlotsWith(type) \in SUBSET (1..Slots)
    BY DEF SlotsWith
  <2>2. SlotFor(type) \in SlotsWith(type)
    BY <1>2, <2>1, FirstIsOne DEF SlotFor
  <2> QED
    BY <2>2 DEF SlotsWith
<1>3. CASE SlotsWith(type) = {}
  <2>1. SlotsWith("EMPTY") # {}
    BY <1>1, <1>3
  <2>2. SlotsWith("EMPTY") \in SUBSET (1..Slots)
    BY DEF SlotsWith
  <2>3. SlotFor(type) \in SlotsWith("EMPTY")
    BY <1>3, <2>1, <2>2, FirstIsOne DEF SlotFor
  <2> QED
    BY <1>3, <2>3 DEF SlotsWith
<1> QED
  BY <1>2, <1>3

-------------------------------------------------------------------------------
(* A command leaves pages to write. *)
LEMMA SequenceOf ==
  ASSUME NEW elements, NEW n \in Nat, NEW f \in [1..n -> elements]
  PROVE  f \in Seq(elements)
OBVIOUS

(* The pages that the setting of a field writes are typed steps.           *)
LEMMA WriteSteps ==
  ASSUME NEW name, NEW field \in Fields, NEW values, NEW value \in values,
         Allowed(name, field, value)
  PROVE  /\ PagesToWrite(field, value) \in Seq(Steps(name, values))
         /\ PagesToWrite(field, value)[1] \in Steps(name, values)
<1> DEFINE pages == PagesToWrite(field, value)
<1>1. pages = [k \in DOMAIN PagesOf(field) |-> [field |-> field, page |-> k, value |-> value]]
  BY DEF PagesToWrite
<1>2. \A k \in DOMAIN PagesOf(field) : pages[k] \in Steps(name, values)
  BY <1>1, PagesType DEF Steps
<1>3. DOMAIN PagesOf(field) \in {1..1, 1..2, 1..3}
  BY DEF PagesOf
<1> HIDE DEF pages
<1>4. pages \in [DOMAIN PagesOf(field) -> Steps(name, values)]
  BY <1>1, <1>2
<1>5. pages \in Seq(Steps(name, values))
  BY <1>3, <1>4, SequenceOf
<1> QED
  BY <1>2, <1>5, PagesType DEF pages

(* They are steps that a command may take.                                 *)
LEMMA FieldSteps ==
  ASSUME NEW name, NEW field \in Fields, NEW value, Allowed(name, field, value)
  PROVE  StepsOK(name, PagesToWrite(field, value))
BY WriteSteps, value \in {value} DEF StepsOK

(* So are those of an offset, with the factory offset before it when it is *)
(* the first.                                                              *)
LEMMA OffsetSteps ==
  ASSUME NEW first, NEW value
  PROVE  StepsOK("OFFSET",
           (IF first THEN PagesToWrite("FACTORY", <<value, TRUE>>) ELSE <<>>)
           \o PagesToWrite("OFFSET", <<value>>))
<1> DEFINE values == {<<value, TRUE>>, <<value>>}
           factory == PagesToWrite("FACTORY", <<value, TRUE>>)
           offset  == PagesToWrite("OFFSET", <<value>>)
<1>1. /\ "FACTORY" \in Fields /\ "OFFSET" \in Fields
      /\ <<value, TRUE>> \in values /\ <<value>> \in values
      /\ Allowed("OFFSET", "FACTORY", <<value, TRUE>>)
      /\ Allowed("OFFSET", "OFFSET", <<value>>)
  BY DEF Fields, Allowed
<1> HIDE DEF values
<1>2. factory \in Seq(Steps("OFFSET", values)) /\ offset \in Seq(Steps("OFFSET", values))
  BY <1>1, WriteSteps
<1> HIDE DEF factory, offset
<1>3. (IF first THEN factory ELSE <<>>) \o offset \in Seq(Steps("OFFSET", values))
  BY <1>2
<1> QED
  BY <1>3 DEF StepsOK, factory, offset

(* So are those that clear the static addresses.                           *)
LEMMA OffSteps ==
  StepsOK("OFF", [i \in DOMAIN Addresses |-> PagesToWrite(Addresses[i], Blank)[1]])
<1> DEFINE off == [i \in DOMAIN Addresses |-> PagesToWrite(Addresses[i], Blank)[1]]
<1>1. \A i \in DOMAIN Addresses :
        Addresses[i] \in Fields /\ Allowed("OFF", Addresses[i], Blank)
  BY DEF Fields, Static, Allowed
<1>2. \A i \in DOMAIN Addresses :
        PagesToWrite(Addresses[i], Blank)[1] \in Steps("OFF", {Blank})
  BY <1>1, WriteSteps
<1>3. DOMAIN Addresses = 1..Len(Addresses) /\ Len(Addresses) \in Nat
  OBVIOUS
<1>4. off \in [1..Len(Addresses) -> Steps("OFF", {Blank})]
  BY <1>2, <1>3
<1> HIDE DEF off
<1>5. off \in Seq(Steps("OFF", {Blank}))
  BY <1>3, <1>4, SequenceOf
<1> QED
  BY <1>5 DEF StepsOK, off

(* What happens to pages and steps, then to everything. *)
LEMMA WriteKeeps ==
  ASSUME ParametersInv, WritePage
  PROVE  ParametersInv'
<1> DEFINE step == Head(todo)
           type == PagesOf(step.field)[step.page]
           slot == SlotFor(type)
<1>1. PICK values : todo \in Seq(Steps(command, values))
  BY DEF ParametersInv, StepsOK
<1>2. step \in Steps(command, values) /\ Tail(todo) \in Seq(Steps(command, values))
  BY <1>1 DEF WritePage
<1>3. type \in PageTypes
  BY <1>2, PagesType DEF Steps
<1> HIDE DEF step, type
<1>4. /\ slot \in 1..Slots
      /\ \/ eeprom[slot].type = type
         \/ eeprom[slot].type = "EMPTY" /\ \A other \in 1..Slots : eeprom[other].type # type
  BY <1>3, SlotType DEF ParametersInv
<1> HIDE DEF slot
<1>5. /\ eeprom' = [eeprom EXCEPT ![slot] =
           [type |-> type, content |-> ContentOf(step.field, step.value, step.page)]]
      /\ programming' = [slot |-> slot, old |-> eeprom[slot]]
      /\ todo' = Tail(todo) /\ command' = command
      /\ DOMAIN ram' = DOMAIN ram /\ UNCHANGED <<link, misled, cached, chip>>
  BY DEF WritePage, step, type, slot, radio
<1>6. /\ DOMAIN eeprom' = 1..Slots
      /\ eeprom'[slot].type = type
      /\ \A other \in 1..Slots : other # slot => eeprom'[other] = eeprom[other]
  BY <1>4, <1>5 DEF ParametersInv, PagesOK
<1>7. PagesOK'
  BY <1>3, <1>4, <1>5, <1>6 DEF ParametersInv, PagesOK
<1>8. UniquePages'
  BY <1>4, <1>6 DEF ParametersInv, UniquePages
<1>9. ProgrammingOK'
  BY <1>4, <1>5, <1>6 DEF ProgrammingOK
<1>10. StepsOK(command, todo)'
  BY <1>2, <1>5 DEF StepsOK
<1> QED
  BY <1>5, <1>7, <1>8, <1>9, <1>10 DEF ParametersInv, RestOK

(* A reset, in the middle of the programming of a page or not, keeps the   *)
(* parameters in order.                                                    *)
LEMMA ResetKeeps ==
  ASSUME ParametersInv, Reset
  PROVE  ParametersInv'
<1>1. \A name : \E values : <<>> \in Seq(Steps(name, values))
  OBVIOUS
<1>2. StepsOK(command, todo)'
  BY <1>1 DEF Reset, StepsOK
<1>3. RestOK' /\ ProgrammingOK'
  BY DEF Reset, RestOK, ProgrammingOK, NoStatic, ParametersInv
<1>4. CASE programming = NoPage
  BY <1>2, <1>3, <1>4 DEF Reset, ParametersInv, PagesOK, UniquePages
<1>5. CASE programming # NoPage
  <2> DEFINE slot == programming.slot
  <2>1. /\ slot \in 1..Slots
        /\ programming.old.type \in {"EMPTY", eeprom[slot].type}
    BY <1>5 DEF ParametersInv, ProgrammingOK
  <2>2. PICK page \in {programming.old, eeprom[slot], EmptyPage} :
          eeprom' = [eeprom EXCEPT ![slot] = page]
    BY <1>5 DEF Reset
  <2>3. page.type \in {"EMPTY", eeprom[slot].type}
    BY <2>1, <2>2 DEF EmptyPage
  <2> HIDE DEF slot
  <2>4. /\ DOMAIN eeprom' = 1..Slots /\ eeprom'[slot].type \in {"EMPTY", eeprom[slot].type}
        /\ \A other \in 1..Slots : other # slot => eeprom'[other] = eeprom[other]
    BY <2>1, <2>2, <2>3 DEF ParametersInv, PagesOK
  <2>5. PagesOK'
    BY <2>1, <2>2, <2>4 DEF ParametersInv, PagesOK
  <2>6. UniquePages'
    BY <2>1, <2>4 DEF ParametersInv, UniquePages
  <2> QED
    BY <1>2, <1>3, <2>5, <2>6 DEF ParametersInv
<1> QED
  BY <1>4, <1>5

(* A command that begins leaves only new steps. *)
LEMMA BeginKeeps ==
  ASSUME ParametersInv, NEW name, NEW pages, StepsOK(name, pages), Begin(name, pages)
  PROVE  ParametersInv'
BY DEF Begin, memory, radio, ParametersInv, PagesOK, ProgrammingOK, StepsOK, RestOK,
       UniquePages

(* The radio changes no parameter.                                         *)
LEMMA RadioKeeps ==
  ASSUME ParametersInv, ConfigFails \/ ConnectFails \/ Connect \/ StopRadio
  PROVE  ParametersInv'
<1>1. UNCHANGED <<ram, eeprom, programming, command, todo>>
  BY DEF ConfigFails, ConnectFails, Connect, StopRadio, MayConnect, memory, running
<1>2. /\ link' \in {"STOPPED", "DISCONNECTED", "CONNECTED"} /\ misled' \in BOOLEAN
      /\ DOMAIN cached' = Static /\ DOMAIN chip' = Static
  BY DEF ConfigFails, ConnectFails, Connect, StopRadio, Configured, StaticOf, Wanted,
         NoStatic, ParametersInv, RestOK
<1> QED
  BY <1>1, <1>2 DEF ParametersInv, PagesOK, ProgrammingOK, StepsOK, RestOK, UniquePages

(* Every step keeps the parameters in order.                               *)
LEMMA ParametersStep == ParametersInv /\ [Next]_vars => ParametersInv'
<1> SUFFICES ASSUME ParametersInv, [Next]_vars PROVE ParametersInv'
  OBVIOUS
<1>1. ASSUME NEW field \in Texts, SetText(field) PROVE ParametersInv'
  BY <1>1, FieldSteps, BeginKeeps, field \in Fields, field \notin Static, field # "STATIC"
  DEF SetText, Fields, Allowed
<1>2. ASSUME NEW field \in Static, SetAddress(field) PROVE ParametersInv'
  BY <1>2, FieldSteps, BeginKeeps DEF SetAddress, Fields, Allowed
<1>3. CASE StaticOff
  BY <1>3, OffSteps, BeginKeeps DEF StaticOff
<1>4. CASE FactoryReset
  BY <1>4, FieldSteps, BeginKeeps DEF FactoryReset, Fields, Allowed
<1>5. ASSUME NEW offset \in Offsets, SetOffset(offset) PROVE ParametersInv'
  BY <1>5, OffsetSteps, BeginKeeps DEF SetOffset
<1>6. CASE Programmed
  BY <1>6 DEF Programmed, running, radio, ParametersInv, PagesOK, ProgrammingOK, StepsOK,
              RestOK, UniquePages
<1>7. CASE WritePage
  BY <1>7, WriteKeeps
<1>8. CASE EndCommand
  <2>1. /\ UNCHANGED <<ram, eeprom, programming, todo, cached, chip, misled>>
        /\ link' \in {link, "DISCONNECTED"}
    BY <1>8 DEF EndCommand, memory
  <2>2. StepsOK(command, todo)'
    BY <1>8 DEF EndCommand, StepsOK
  <2> QED
    BY <2>1, <2>2 DEF ParametersInv, PagesOK, ProgrammingOK, RestOK, UniquePages
<1>9. CASE ConfigFails \/ ConnectFails \/ Connect \/ StopRadio
  BY <1>9, RadioKeeps
<1>10. CASE Reset
  BY <1>10, ResetKeeps
<1>11. CASE UNCHANGED vars
  BY <1>11 DEF vars, memory, running, radio, ParametersInv, PagesOK, ProgrammingOK,
               StepsOK, RestOK, UniquePages
<1> QED
  BY <1>1, <1>2, <1>3, <1>4, <1>5, <1>6, <1>7, <1>8, <1>9, <1>10, <1>11 DEF Next

(* An empty EEPROM and the defaults are in order.                          *)
LEMMA ParametersStart == Init => ParametersInv
<1> SUFFICES ASSUME Init PROVE ParametersInv
  OBVIOUS
<1>1. \A name : \E values : <<>> \in Seq(Steps(name, values))
  OBVIOUS
<1> QED
  BY <1>1 DEF Init, ParametersInv, PagesOK, ProgrammingOK, StepsOK, RestOK, UniquePages,
              EmptyPage, NoPage, NoStatic

(* Parameters in order are typed.                                          *)
LEMMA ParametersImplied == ParametersInv => ParametersTypeOK
<1> SUFFICES ASSUME ParametersInv PROVE ParametersTypeOK
  OBVIOUS
<1>1. programming.slot \in 0..Slots
  BY DEF ParametersInv, ProgrammingOK, NoPage
<1>2. Room
  BY RoomForAll DEF ParametersInv
<1> QED
  BY <1>1, <1>2 DEF ParametersInv, PagesOK, RestOK, ParametersTypeOK

(* No parameter ever has two pages and each has one to be written to,      *)
(* whatever commands and resets there were: config_read and                *)
(* config_write_eeprom, which stop at different pages if there are two,    *)
(* speak of the same one, and config_write never fails.                    *)
THEOREM PagesEnoughAndUnique == Spec => []ParametersTypeOK
<1>1. Spec => []ParametersInv
  BY ParametersStart, ParametersStep, PTL DEF Spec
<1> QED
  BY <1>1, ParametersImplied, PTL

-------------------------------------------------------------------------------
(* What is known of the connection while a command is running: only the    *)
(* one that changes a parameter may differ from the chip, and it leaves    *)
(* the network at its end.                                                 *)
ChipOK == chip = Wanted(cached) \/ misled

AddressesOK ==
  \/ command = "OFF" \/ (command = "STATIC" /\ StaticSet(StaticOf(ram)))
  \/ /\ chip = Wanted(StaticOf(ram)) \/ misled
     /\ StaticSet(StaticOf(ram)) => chip["IP"] = ram["IP"]

NetworkOK == "SSID" \in Texts => command = "SSID" \/ joined = ram["SSID"]

ConnectionInv ==
  /\ Idle => todo = <<>>
  /\ ChipOK
  /\ link = "CONNECTED" => AddressesOK /\ NetworkOK

(* A page that is written keeps the chip with the addresses it was given.  *)
LEMMA WriteKeepsConnection ==
  ASSUME ParametersInv, ConnectionInv, WritePage
  PROVE  ConnectionInv'
<1> DEFINE step == Head(todo)
<1>1. PICK values : todo \in Seq(Steps(command, values))
  BY DEF ParametersInv, StepsOK
<1>2. step \in Steps(command, values)
  BY <1>1 DEF WritePage
<1>3. step.field \in Fields /\ Allowed(command, step.field, step.value)
  BY <1>2 DEF Steps
<1> HIDE DEF step
<1>4. /\ DOMAIN ram' = DOMAIN ram /\ ram'[step.field] = step.value
      /\ \A field \in Fields : field # step.field => ram'[field] = ram[field]
      /\ UNCHANGED <<command, link, cached, chip, joined, misled>>
  BY <1>3 DEF WritePage, step, radio, ParametersInv, RestOK
<1>5. ~Idle
  BY DEF ConnectionInv, WritePage
<1>6. NetworkOK => NetworkOK'
  BY <1>3, <1>4 DEF NetworkOK, Allowed, Fields
<1>7. ASSUME AddressesOK PROVE AddressesOK'
  <2>1. CASE command = "OFF"
    BY <1>4, <2>1 DEF AddressesOK
  <2>2. CASE command \notin {"OFF", "STATIC"}
    <3>1. \A field \in Static : ram'[field] = ram[field]
      BY <1>3, <1>4, <2>2 DEF Allowed, Fields
    <3>2. StaticOf(ram)' = StaticOf(ram) /\ ram'["IP"] = ram["IP"]
      BY <3>1 DEF StaticOf
    <3> QED
      BY <1>4, <1>7, <2>2, <3>2 DEF AddressesOK
  <2>3. CASE command = "STATIC" /\ StaticSet(StaticOf(ram))'
    BY <1>4, <2>3 DEF AddressesOK
  <2>4. CASE command = "STATIC" /\ ~StaticSet(StaticOf(ram))'
    <3>1. step.value # Blank
      BY <1>3, <2>4 DEF Allowed
    <3>2. ~StaticSet(StaticOf(ram))
      BY <1>4, <2>4, <3>1 DEF StaticSet, StaticOf, Fields
    <3>3. Wanted(StaticOf(ram))' = Wanted(StaticOf(ram))
      BY <2>4, <3>2 DEF Wanted
    <3> QED
      BY <1>4, <1>7, <2>4, <3>2, <3>3 DEF AddressesOK
  <2> QED
    BY <2>1, <2>2, <2>3, <2>4
<1> QED
  BY <1>4, <1>5, <1>6, <1>7 DEF ConnectionInv, ChipOK, Idle

(* A connection, made, refused or stopped, leaves the chip with the        *)
(* addresses it was given.                                                 *)
LEMMA ConnectKeeps ==
  ASSUME ParametersInv, ConnectionInv, ConfigFails \/ ConnectFails \/ Connect \/ StopRadio
  PROVE  ConnectionInv'
<1>1. UNCHANGED <<ram, command, todo>>
  BY DEF ConfigFails, ConnectFails, Connect, StopRadio, MayConnect, memory, running
<1>2. CASE ConfigFails
  BY <1>1, <1>2 DEF ConfigFails, ConnectionInv, ChipOK, Idle
<1>3. CASE StopRadio
  BY <1>1, <1>3 DEF StopRadio, ConnectionInv, ChipOK, Idle
<1>4. ASSUME Configured
      PROVE  /\ ChipOK' /\ cached' = StaticOf(ram)
             /\ chip' = Wanted(StaticOf(ram)) \/ misled'
  BY <1>4 DEF Configured, Changed, ConnectionInv, ChipOK
<1>5. CASE ConnectFails
  BY <1>1, <1>4, <1>5 DEF ConnectFails, ConnectionInv, Idle
<1>6. CASE Connect
  <2>1. ChipOK' /\ (chip' = Wanted(StaticOf(ram)) \/ misled')
    BY <1>4, <1>6 DEF Connect
  <2>2. link' = "CONNECTED" => Verified /\ ("SSID" \in Texts => joined' = ram["SSID"])
    BY <1>6 DEF Connect
  <2> QED
    BY <1>1, <2>1, <2>2 DEF Verified, ConnectionInv, AddressesOK, NetworkOK, Idle
<1> QED
  BY <1>2, <1>3, <1>5, <1>6

(* So does the end of a command.                                           *)
LEMMA EndKeepsConnection ==
  ASSUME ConnectionInv, EndCommand
  PROVE  ConnectionInv'
<1>1. /\ todo' = <<>> /\ UNCHANGED <<ram, cached, chip, joined, misled>>
      /\ link' = "CONNECTED" => link = "CONNECTED" /\ ~Leaves
  BY DEF EndCommand, memory
<1>2. ASSUME link' = "CONNECTED" PROVE AddressesOK' /\ NetworkOK'
  <2>1. /\ command \notin {"SSID", "OFF"} /\ ~(command = "STATIC" /\ StaticSet(StaticOf(ram)))
        /\ AddressesOK /\ NetworkOK
    BY <1>1, <1>2 DEF Leaves, ConnectionInv
  <2> QED
    BY <1>1, <2>1 DEF AddressesOK, NetworkOK
<1> QED
  BY <1>1, <1>2 DEF ConnectionInv, ChipOK

(* So does its beginning.                                                  *)
LEMMA BeginKeepsConnection ==
  ASSUME ConnectionInv, NEW name, name # "NONE", NEW pages, Begin(name, pages)
  PROVE  ConnectionInv'
<1>1. Idle /\ command' = name /\ UNCHANGED <<ram, cached, chip, link, joined, misled>>
  BY DEF Begin, memory, radio
<1> QED
  BY <1>1 DEF ConnectionInv, ChipOK, AddressesOK, NetworkOK, Idle

(* Every step keeps what the connection was made with.                     *)
LEMMA ConnectionStep ==
  ParametersInv /\ ConnectionInv /\ [Next]_vars => ConnectionInv'
<1> SUFFICES ASSUME ParametersInv, ConnectionInv, [Next]_vars PROVE ConnectionInv'
  OBVIOUS
<1>1. ASSUME NEW field \in Texts, SetText(field) PROVE ConnectionInv'
  BY <1>1, BeginKeepsConnection, field # "NONE" DEF SetText
<1>2. ASSUME NEW field \in Static, SetAddress(field) PROVE ConnectionInv'
  BY <1>2, BeginKeepsConnection DEF SetAddress
<1>3. CASE StaticOff
  BY <1>3, BeginKeepsConnection DEF StaticOff
<1>4. CASE FactoryReset
  BY <1>4, BeginKeepsConnection DEF FactoryReset
<1>5. ASSUME NEW offset \in Offsets, SetOffset(offset) PROVE ConnectionInv'
  BY <1>5, BeginKeepsConnection DEF SetOffset
<1>6. CASE Programmed
  BY <1>6 DEF Programmed, running, radio, ConnectionInv, ChipOK, AddressesOK, NetworkOK, Idle
<1>7. CASE WritePage
  BY <1>7, WriteKeepsConnection
<1>8. CASE EndCommand
  BY <1>8, EndKeepsConnection
<1>9. CASE ConfigFails \/ ConnectFails \/ Connect \/ StopRadio
  BY <1>9, ConnectKeeps
<1>10. CASE Reset
  BY <1>10 DEF Reset, ConnectionInv, ChipOK, Wanted, Idle
<1>11. CASE UNCHANGED vars
  BY <1>11 DEF vars, memory, running, radio, ConnectionInv, ChipOK, AddressesOK, NetworkOK, Idle
<1> QED
  BY <1>1, <1>2, <1>3, <1>4, <1>5, <1>6, <1>7, <1>8, <1>9, <1>10, <1>11 DEF Next

(* The chip is not connected to begin with.                                *)
LEMMA ConnectionStart == Init => ConnectionInv
BY DEF Init, ConnectionInv, ChipOK, Wanted, Idle, NoStatic, StaticSet

(* Whenever the device is connected and no command is running, it is in    *)
(* the network that is configured, and the chip has all the addresses that *)
(* are unless wifi_connect was misled: every command that changes one of   *)
(* them leaves the network before it ends, for any parameters, values,     *)
(* failures and resets.                                                    *)
THEOREM ConnectedIsAsConfigured == Spec => []ConnectedAsConfigured
<1>1. Init => ParametersInv /\ ConnectionInv
  BY ParametersStart, ConnectionStart
<1>2. ParametersInv /\ ConnectionInv /\ [Next]_vars => (ParametersInv /\ ConnectionInv)'
  BY ParametersStep, ConnectionStep
<1>3. ParametersInv /\ ConnectionInv => ConnectedAsConfigured
  BY DEF ConnectionInv, AddressesOK, NetworkOK, ConnectedAsConfigured, Idle
<1> QED
  BY <1>1, <1>2, <1>3, PTL DEF Spec

(* verify_static_ip keeps this true even of a driver that was misled.      *)
THEOREM StaticIpAsAsked == Spec => []StaticIpVerified
<1>1. Init => ParametersInv /\ ConnectionInv
  BY ParametersStart, ConnectionStart
<1>2. ParametersInv /\ ConnectionInv /\ [Next]_vars => (ParametersInv /\ ConnectionInv)'
  BY ParametersStep, ConnectionStep
<1>3. ParametersInv /\ ConnectionInv => StaticIpVerified
  BY DEF ConnectionInv, AddressesOK, StaticIpVerified, Idle
<1> QED
  BY <1>1, <1>2, <1>3, PTL DEF Spec

-------------------------------------------------------------------------------
(* What is written is what is loaded.  From here on the assumption on the  *)
(* constants is cited where it is needed.                                  *)
HIDE ParametersAssumption

(* What config_read puts together of one, two or three pages. *)
Present(pages, type) == \E slot \in 1..Slots : pages[slot].type = type

(* Its recursion has at most three steps: they are written out.            *)
LEMMA LoadedIs ==
  ASSUME NEW pages, NEW field
  PROVE  LET types == PagesOf(field) IN
         /\ ~Present(pages, types[1]) => Loaded(pages, field) = Default(field)
         /\ Present(pages, types[1]) /\ Len(types) = 1 =>
              Loaded(pages, field) = Blank \o Content(pages, types[1])
         /\ Present(pages, types[1]) /\ Len(types) = 2 =>
              Loaded(pages, field) =
                (Blank \o Content(pages, types[1])) \o Content(pages, types[2])
         /\ Present(pages, types[1]) /\ Len(types) = 3 =>
              Loaded(pages, field) =
                ((Blank \o Content(pages, types[1])) \o Content(pages, types[2]))
                \o Content(pages, types[3])
<1> DEFINE types == PagesOf(field)
           text[k \in 0..Len(types)] ==
             IF k = 0 THEN Blank ELSE text[k - 1] \o Content(pages, types[k])
<1>1. Loaded(pages, field) =
        IF Present(pages, types[1]) THEN text[Len(types)] ELSE Default(field)
  BY DEF Loaded, Present
<1> DEFINE c(k) == Content(pages, types[k])
           n == Len(types)
           first == Blank \o c(1)
           second == first \o c(2)
           joined3 == second \o c(3)
           join == [k \in 0..n |-> IF k = 0 THEN Blank ELSE IF k = 1 THEN first
                                   ELSE IF k = 2 THEN second ELSE joined3]
<1>2. n \in {1, 2, 3}
  BY DEF PagesOf
<1>3. join = [k \in 0..n |-> IF k = 0 THEN Blank ELSE join[k - 1] \o c(k)]
  <2>1. ASSUME NEW k \in 0..n
        PROVE  join[k] = IF k = 0 THEN Blank ELSE join[k - 1] \o c(k)
    <3> HIDE DEF first, second, joined3, n, c
    <3>1. k \in {0, 1, 2, 3} /\ 0..n \subseteq Int
      BY <1>2
    <3>2. CASE k = 0
      BY <3>2, <3>1, <1>2
    <3>3. CASE k = 1
      BY <3>3, <3>1, <1>2 DEF first
    <3>4. CASE k = 2
      BY <3>4, <1>2 DEF second
    <3>5. CASE k = 3
      BY SMTT(30), <3>5, <1>2 DEF joined3
    <3> QED
      BY <3>1, <3>2, <3>3, <3>4, <3>5
  <2> HIDE DEF first, second, joined3, c, n
  <2> QED
    BY <2>1
<1>4. text = [k \in 0..n |-> IF k = 0 THEN Blank ELSE text[k - 1] \o c(k)]
  <2> HIDE DEF join
  <2> QED
    BY <1>3
<1> HIDE DEF text, join
<1> HIDE DEF c, n, first, second, joined3
<1>5. text[0] = Blank
  <2>1. 0 \in 0..n
    BY <1>2
  <2> QED
    BY <1>4, <2>1
<1>6. text[1] = first
  <2>1. 1 \in 0..n /\ 1 - 1 = 0 /\ 1 # 0
    BY <1>2
  <2>2. text[1] = text[1 - 1] \o c(1)
    BY <1>4, <2>1, Zenon
  <2> QED
    BY <1>5, <2>1, <2>2 DEF first
<1>7. ASSUME n \in {2, 3} PROVE text[2] = second
  <2>1. 2 \in 0..n /\ 2 - 1 = 1 /\ 2 # 0
    BY <1>7
  <2>2. text[2] = text[2 - 1] \o c(2)
    BY <1>4, <2>1, Zenon
  <2> QED
    BY <1>6, <2>1, <2>2 DEF second
<1>8. ASSUME n = 3 PROVE text[3] = joined3
  <2>1. 3 \in 0..n /\ 3 - 1 = 2 /\ 3 # 0
    BY <1>8
  <2>2. text[3] = text[3 - 1] \o c(3)
    BY <1>4, <2>1, Zenon
  <2> QED
    BY <1>7, <1>8, <2>1, <2>2 DEF joined3
<1>9. /\ n = 1 => text[n] = first
      /\ n = 2 => text[n] = second
      /\ n = 3 => text[n] = joined3
  BY <1>6, <1>7, <1>8
<1> QED
  BY <1>1, <1>9 DEF n, first, second, joined3, c

(* A page is found by its type. *)
UniqueIn(pages) ==
  \A a, b \in 1..Slots :
    pages[a].type = pages[b].type /\ pages[a].type # "EMPTY" => a = b

(* So the content is that of the page.                                     *)
LEMMA ContentIs ==
  ASSUME NEW pages, UniqueIn(pages), NEW slot \in 1..Slots, pages[slot].type # "EMPTY"
  PROVE  Content(pages, pages[slot].type) = pages[slot].content
<1> DEFINE found == {other \in 1..Slots : pages[other].type = pages[slot].type}
<1>1. found = {slot}
  BY DEF UniqueIn
<1>2. First(found) \in found
  BY <1>1, FirstIsOne
<1> QED
  BY <1>1, <1>2 DEF Content

(* Of pages that hold the same for the types of a parameter the same is    *)
(* loaded.                                                                 *)
LEMMA LoadedSame ==
  ASSUME NEW pages, NEW others, NEW field \in Fields,
         \A slot \in 1..Slots : \A k \in DOMAIN PagesOf(field) :
           /\ pages[slot].type = PagesOf(field)[k] <=> others[slot].type = PagesOf(field)[k]
           /\ pages[slot].type = PagesOf(field)[k] => pages[slot] = others[slot]
  PROVE  Loaded(pages, field) = Loaded(others, field)
<1> DEFINE types == PagesOf(field)
<1>1. ASSUME NEW k \in DOMAIN types
      PROVE  /\ Content(pages, types[k]) = Content(others, types[k])
             /\ Present(pages, types[k]) <=> Present(others, types[k])
  <2> DEFINE found(p) == {slot \in 1..Slots : p[slot].type = types[k]}
  <2>1. found(pages) = found(others)
    OBVIOUS
  <2>2. CASE found(pages) = {}
    BY <2>1, <2>2 DEF Content, Present
  <2>3. CASE found(pages) # {}
    <3>1. First(found(pages)) \in found(pages)
      BY <2>3, FirstIsOne
    <3>2. pages[First(found(pages))] = others[First(found(pages))]
      BY <3>1
    <3>3. Content(pages, types[k]) = pages[First(found(pages))].content
      BY <2>3 DEF Content
    <3>4. Content(others, types[k]) = others[First(found(pages))].content
      BY <2>1, <2>3 DEF Content
    <3>5. Present(pages, types[k]) /\ Present(others, types[k])
      BY <2>1, <2>3 DEF Present
    <3> QED
      BY <3>2, <3>3, <3>4, <3>5
  <2> QED
    BY <2>2, <2>3
<1>2. /\ Len(types) \in {1, 2, 3} /\ 1 \in DOMAIN types
      /\ Len(types) = 2 => 2 \in DOMAIN types
      /\ Len(types) = 3 => 2 \in DOMAIN types /\ 3 \in DOMAIN types
  BY DEF PagesOf
<1> HIDE DEF types
<1>3. CASE ~Present(pages, types[1])
  BY <1>1, <1>2, <1>3, LoadedIs DEF types
<1>4. CASE Present(pages, types[1])
  <2>1. Present(others, types[1]) /\ Content(pages, types[1]) = Content(others, types[1])
    BY <1>1, <1>2, <1>4
  <2>2. ASSUME NEW p, Present(p, types[1])
        PROVE  /\ Len(types) = 1 => Loaded(p, field) = Blank \o Content(p, types[1])
               /\ Len(types) = 2 => Loaded(p, field) =
                    (Blank \o Content(p, types[1])) \o Content(p, types[2])
               /\ Len(types) = 3 => Loaded(p, field) =
                    ((Blank \o Content(p, types[1])) \o Content(p, types[2]))
                    \o Content(p, types[3])
    BY <2>2, LoadedIs DEF types
  <2>3. CASE Len(types) = 1
    BY <1>4, <2>1, <2>2, <2>3
  <2>4. CASE Len(types) = 2
    <3>1. Content(pages, types[2]) = Content(others, types[2])
      BY <1>1, <1>2, <2>4
    <3> QED
      BY <1>4, <2>1, <2>2, <2>4, <3>1
  <2>5. CASE Len(types) = 3
    <3>1. Content(pages, types[2]) = Content(others, types[2])
          /\ Content(pages, types[3]) = Content(others, types[3])
      BY <1>1, <1>2, <2>5
    <3> QED
      BY <1>4, <2>1, <2>2, <2>5, <3>1
  <2> QED
    BY <1>2, <2>3, <2>4, <2>5
<1> QED
  BY <1>3, <1>4

(* What was cut into pages is put together again. *)
LEMMA Pieces ==
  ASSUME NEW V, NEW value \in Seq(V)
  PROVE  /\ Blank \o value = value
         /\ value = Blank \/ Len(value) >= 1
         /\ Len(value) = 1 => value = <<value[1]>>
         /\ Len(value) = 2 => value = <<value[1]>> \o <<value[2]>>
         /\ Len(value) = 3 => value = (<<value[1]>> \o <<value[2]>>) \o <<value[3]>>
         /\ \A a, b : /\ <<>> \o <<a>> = <<a>> /\ <<a>> \o <<>> = <<a>>
                      /\ (<<a>> \o <<b>>) \o <<>> = <<a>> \o <<b>>
<1>1. Blank \o value = value
  <2>1. Blank \o value \in Seq(V) /\ Len(Blank \o value) = Len(value)
        /\ \A i \in 1..Len(value) : (Blank \o value)[i] = value[i]
    BY DEF Blank
  <2> QED
    BY <2>1, SeqEqual
<1>2. value = Blank \/ Len(value) >= 1
  BY DEF Blank
<1>3. ASSUME Len(value) = 1 PROVE value = <<value[1]>>
  <2>1. <<value[1]>> \in Seq(V) /\ Len(<<value[1]>>) = 1
    BY <1>3
  <2> QED
    BY <1>3, <2>1, SeqEqual
<1>4. ASSUME Len(value) \in {2, 3} PROVE LET two == <<value[1]>> \o <<value[2]>> IN
        two \in Seq(V) /\ Len(two) = 2 /\ two[1] = value[1] /\ two[2] = value[2]
  <2>1. <<value[1]>> \in Seq(V) /\ <<value[2]>> \in Seq(V)
    BY <1>4
  <2> QED
    BY <2>1
<1>5. ASSUME Len(value) = 2 PROVE value = <<value[1]>> \o <<value[2]>>
  BY <1>4, <1>5, SeqEqual
<1>6. ASSUME Len(value) = 3 PROVE value = (<<value[1]>> \o <<value[2]>>) \o <<value[3]>>
  <2> DEFINE two == <<value[1]>> \o <<value[2]>>
             last == <<value[3]>>
             three == two \o last
  <2>1. two \in Seq(V) /\ Len(two) = 2 /\ two[1] = value[1] /\ two[2] = value[2]
    BY <1>4, <1>6
  <2>2. last \in Seq(V) /\ Len(last) = 1 /\ last[1] = value[3]
    BY <1>6
  <2> HIDE DEF two, last
  <2>3. three \in Seq(V) /\ Len(three) = 3 /\ three[1] = value[1] /\ three[2] = value[2]
        /\ three[3] = value[3]
    <3>1. /\ three \in Seq(V) /\ Len(three) = 3
          /\ \A i \in 1..3 : three[i] = IF i <= 2 THEN two[i] ELSE last[i - 2]
      <4>1. /\ three \in Seq(V) /\ Len(three) = Len(two) + Len(last)
            /\ \A i \in 1..(Len(two) + Len(last)) :
                 three[i] = IF i <= Len(two) THEN two[i] ELSE last[i - Len(two)]
        BY <2>1, <2>2, ConcatProperties
      <4>2. Len(two) + Len(last) = 3
        BY <2>1, <2>2
      <4> QED
        BY <2>1, <4>1, <4>2
    <3>2. three[1] = two[1] /\ three[2] = two[2] /\ three[3] = last[3 - 2] /\ 3 - 2 = 1
      BY <3>1
    <3> QED
      BY <2>1, <2>2, <3>1, <3>2
  <2> HIDE DEF three
  <2>4. three = value
    BY <1>6, <2>3, SeqEqual
  <2> QED
    BY <2>4 DEF two, last, three
<1>7. \A a, b : /\ <<>> \o <<a>> = <<a>> /\ <<a>> \o <<>> = <<a>>
                /\ (<<a>> \o <<b>>) \o <<>> = <<a>> \o <<b>>
  <2> TAKE a, b
  <2> DEFINE two == <<a>> \o <<b>>
  <2>1. <<a>> \in Seq({a, b}) /\ <<b>> \in Seq({a, b}) /\ <<>> \in Seq({a, b})
    OBVIOUS
  <2>2. two \in Seq({a, b})
    BY <2>1
  <2>3. \A s \in Seq({a, b}) : <<>> \o s = s /\ s \o <<>> = s
    BY ConcatEmptySeq
  <2> HIDE DEF two
  <2>4. two \o <<>> = two
    BY <2>2, <2>3
  <2> QED
    BY <2>1, <2>3, <2>4 DEF two
<1> QED
  BY <1>1, <1>2, <1>3, <1>5, <1>6, <1>7

(* As many pieces as there are pages, at most.                             *)
LEMMA UpToThree ==
  \A m \in Nat : (m <= 2 => m \in {0, 1, 2}) /\ (m <= 3 => m \in {0, 1, 2, 3})
OBVIOUS

(* A value all of whose pages are written is the one that is loaded.       *)
LEMMA WrittenIsLoaded ==
  ASSUME NEW pages, UniqueIn(pages), NEW field \in Fields, NEW V, NEW value \in Seq(V),
         Len(PagesOf(field)) > 1 => Len(value) <= Len(PagesOf(field)),
         \A k \in DOMAIN PagesOf(field) : \E slot \in 1..Slots :
           pages[slot] = [type |-> PagesOf(field)[k], content |-> ContentOf(field, value, k)]
  PROVE  Loaded(pages, field) = value
<1> DEFINE types == PagesOf(field)
           n == Len(types)
           part(k) == Content(pages, types[k])
<1>1. ASSUME NEW k \in DOMAIN types
      PROVE  part(k) = ContentOf(field, value, k) /\ Present(pages, types[k])
  <2>1. PICK slot \in 1..Slots :
          pages[slot] = [type |-> types[k], content |-> ContentOf(field, value, k)]
    OBVIOUS
  <2>2. types[k] # "EMPTY"
    BY PagesType
  <2> QED
    BY <2>1, <2>2, ContentIs DEF Present
<1>2. /\ n \in {1, 2, 3} /\ 1 \in DOMAIN types
      /\ n = 2 => 2 \in DOMAIN types
      /\ n = 3 => 2 \in DOMAIN types /\ 3 \in DOMAIN types
  BY DEF PagesOf
<1>3. Present(pages, types[1])
  BY <1>1, <1>2
<1>4. /\ n = 1 => Loaded(pages, field) = Blank \o part(1)
      /\ n = 2 => Loaded(pages, field) = (Blank \o part(1)) \o part(2)
      /\ n = 3 => Loaded(pages, field) = ((Blank \o part(1)) \o part(2)) \o part(3)
  BY <1>3, LoadedIs
<1>5. \A k : /\ n = 1 => ContentOf(field, value, k) = value
             /\ n > 1 /\ k <= Len(value) => ContentOf(field, value, k) = <<value[k]>>
             /\ n > 1 /\ ~(k <= Len(value)) => ContentOf(field, value, k) = <<>>
  BY DEF ContentOf, Blank
<1> HIDE DEF types, n, part
<1>6. CASE n = 1
  <2>1. part(1) = value
    BY <1>1, <1>2, <1>5, <1>6
  <2> QED
    BY <1>4, <1>6, <2>1, Pieces
<1> DEFINE piece(k) == IF k <= Len(value) THEN <<value[k]>> ELSE <<>>
<1>7. CASE n = 2
  <2>1. part(1) = piece(1) /\ part(2) = piece(2)
    BY <1>1, <1>2, <1>5, <1>7
  <2>2. Loaded(pages, field) = (<<>> \o piece(1)) \o piece(2)
    BY <1>4, <1>7, <2>1 DEF Blank
  <2>3. Len(value) \in {0, 1, 2}
    <3>1. Len(value) <= 2
      BY <1>7 DEF n, types
    <3>2. Len(value) \in Nat
      OBVIOUS
    <3> QED
      BY <3>1, <3>2, UpToThree
  <2>4. CASE Len(value) = 0
    <3>1. piece(1) = <<>> /\ piece(2) = <<>> /\ value = <<>> /\ <<>> \o <<>> = <<>>
      BY <2>4
    <3> QED
      BY <2>2, <3>1
  <2>5. CASE Len(value) = 1
    <3>1. piece(1) = <<value[1]>> /\ piece(2) = <<>>
      BY <2>5
    <3> QED
      BY <2>2, <2>5, <3>1, Pieces
  <2>6. CASE Len(value) = 2
    <3>1. piece(1) = <<value[1]>> /\ piece(2) = <<value[2]>>
      BY <2>6
    <3> QED
      BY <2>2, <2>6, <3>1, Pieces
  <2> QED
    BY <2>3, <2>4, <2>5, <2>6
<1>8. CASE n = 3
  <2>1. part(1) = piece(1) /\ part(2) = piece(2) /\ part(3) = piece(3)
    BY <1>1, <1>2, <1>5, <1>8
  <2>2. Loaded(pages, field) = ((<<>> \o piece(1)) \o piece(2)) \o piece(3)
    BY <1>4, <1>8, <2>1 DEF Blank
  <2>3. Len(value) \in {0, 1, 2, 3}
    <3>1. Len(value) <= 3
      BY <1>8 DEF n, types
    <3>2. Len(value) \in Nat
      OBVIOUS
    <3> QED
      BY <3>1, <3>2, UpToThree
  <2>4. CASE Len(value) = 0
    <3>1. piece(1) = <<>> /\ piece(2) = <<>> /\ piece(3) = <<>> /\ value = <<>>
          /\ <<>> \o <<>> = <<>>
      BY <2>4
    <3> QED
      BY <2>2, <3>1
  <2>5. CASE Len(value) = 1
    <3>1. piece(1) = <<value[1]>> /\ piece(2) = <<>> /\ piece(3) = <<>>
      BY <2>5
    <3> QED
      BY <2>2, <2>5, <3>1, Pieces
  <2>6. CASE Len(value) = 2
    <3>1. piece(1) = <<value[1]>> /\ piece(2) = <<value[2]>> /\ piece(3) = <<>>
      BY <2>6
    <3>2. Loaded(pages, field) = (<<value[1]>> \o <<value[2]>>) \o <<>>
      BY <2>2, <3>1, Pieces
    <3>3. (<<value[1]>> \o <<value[2]>>) \o <<>> = <<value[1]>> \o <<value[2]>>
      BY Pieces
    <3>4. value = <<value[1]>> \o <<value[2]>>
      BY <2>6, Pieces
    <3> QED
      BY <3>2, <3>3, <3>4
  <2>7. CASE Len(value) = 3
    <3>1. piece(1) = <<value[1]>> /\ piece(2) = <<value[2]>> /\ piece(3) = <<value[3]>>
      BY <2>7
    <3> QED
      BY <2>2, <2>7, <3>1, Pieces
  <2> QED
    BY <2>3, <2>4, <2>5, <2>6, <2>7
<1> QED
  BY <1>2, <1>6, <1>7, <1>8

-------------------------------------------------------------------------------
(* What is left to write: the pages of a parameter follow each other, its  *)
(* text fits them, and the factory's offset comes first and only if there  *)
(* was none.                                                               *)
Run(pages) ==
  \A i \in DOMAIN pages :
    /\ pages[i].page < Len(PagesOf(pages[i].field)) =>
         /\ i + 1 \in DOMAIN pages /\ pages[i + 1].field = pages[i].field
         /\ pages[i + 1].page = pages[i].page + 1 /\ pages[i + 1].value = pages[i].value
    /\ i > 1 /\ pages[i].page > 1 =>
         /\ pages[i - 1].field = pages[i].field
         /\ pages[i - 1].page = pages[i].page - 1 /\ pages[i - 1].value = pages[i].value

Fits(field, value) ==
  /\ \E V : value \in Seq(V)
  /\ Len(PagesOf(field)) > 1 => Len(value) <= Len(PagesOf(field))

TextsFit(pages) == \A i \in DOMAIN pages : Fits(pages[i].field, pages[i].value)

FactoryOnce ==
  \A i \in DOMAIN todo : todo[i].field = "FACTORY" => i = 1 /\ ram["FACTORY"] = <<0, FALSE>>

(* What has been written: the pages before the one at hand, if it is not   *)
(* the first one; every other parameter; and the parameter the hardware    *)
(* is programming was on its page before.                                  *)
UnderWay(field) == todo # <<>> /\ Head(todo).page > 1 /\ Head(todo).field = field

Written ==
  todo # <<>> /\ Head(todo).page > 1 =>
    /\ ram[Head(todo).field] = Head(todo).value
    /\ \A k \in 1..(Head(todo).page - 1) : \E slot \in 1..Slots :
         eeprom[slot] =
           [type    |-> PagesOf(Head(todo).field)[k],
            content |-> ContentOf(Head(todo).field, Head(todo).value, k)]

AsLoaded == \A field \in Fields : UnderWay(field) \/ Loaded(eeprom, field) = ram[field]

Unprogram == [eeprom EXCEPT ![programming.slot] = programming.old]

BeforeKept ==
  programming # NoPage =>
    \A field \in Fields :
      Len(PagesOf(field)) = 1 /\ eeprom[programming.slot].type = PagesOf(field)[1] =>
        Loaded(Unprogram, field) = before[field]

ReadInv ==
  /\ Run(todo) /\ TextsFit(todo) /\ FactoryOnce
  /\ Written /\ AsLoaded /\ BeforeKept /\ DOMAIN before = Fields

(* The pages of a parameter, and that no other has them. *)
LEMMA PagesAre ==
  ASSUME NEW field \in Fields
  PROVE  LET types == PagesOf(field) IN
         /\ field = "SSID" =>
              DOMAIN types = {1, 2} /\ types[1] = "SSID" /\ types[2] = "SSID_SEC"
         /\ field = "PASS" =>
              /\ DOMAIN types = {1, 2, 3} /\ types[1] = "PASS" /\ types[2] = "PASS_SEC"
              /\ types[3] = "PASS_THIRD"
         /\ field \notin {"SSID", "PASS"} => DOMAIN types = {1} /\ types[1] = field
         /\ field \notin {"SSID_SEC", "PASS_SEC", "PASS_THIRD"}
<1>1. field \notin {"SSID_SEC", "PASS_SEC", "PASS_THIRD"}
  <2>1. CASE field \in Texts
    <3>1. field \in {"SSID", "PASS", "AUTH", "PORT"}
      BY <2>1, ParametersAssumption
    <3> QED
      BY <3>1
  <2>2. CASE field \in Static
    BY <2>2, ParametersAssumption
  <2>3. CASE field \in {"OFFSET", "FACTORY"}
    BY <2>3
  <2> QED
    BY <2>1, <2>2, <2>3 DEF Fields
<1>2. ASSUME field = "SSID" PROVE DOMAIN PagesOf(field) = {1, 2}
  BY <1>2 DEF PagesOf
<1>3. ASSUME field = "PASS" PROVE DOMAIN PagesOf(field) = {1, 2, 3}
  BY <1>3 DEF PagesOf
<1>4. ASSUME field \notin {"SSID", "PASS"} PROVE DOMAIN PagesOf(field) = {1}
  BY <1>4 DEF PagesOf
<1> QED
  BY <1>1, <1>2, <1>3, <1>4 DEF PagesOf

(* No page type belongs to two parameters.                                 *)
LEMMA PagesDiffer ==
  ASSUME NEW field \in Fields, NEW other \in Fields, field # other,
         NEW k \in DOMAIN PagesOf(field), NEW j \in DOMAIN PagesOf(other)
  PROVE  PagesOf(field)[k] # PagesOf(other)[j]
<1> DEFINE own == PagesOf(field)
           others == PagesOf(other)
<1>1. CASE field = "SSID"
  <2>1. own[k] \in {"SSID", "SSID_SEC"}
    BY <1>1, PagesAre
  <2>2. others[j] \in {other, "PASS_SEC", "PASS_THIRD"} /\ other # "SSID_SEC"
    BY <1>1, PagesAre
  <2> QED
    BY <1>1, <2>1, <2>2
<1>2. CASE field = "PASS"
  <2>1. own[k] \in {"PASS", "PASS_SEC", "PASS_THIRD"}
    BY <1>2, PagesAre
  <2>2. others[j] \in {other, "SSID_SEC"} /\ other \notin {"PASS_SEC", "PASS_THIRD"}
    BY <1>2, PagesAre
  <2> QED
    BY <1>2, <2>1, <2>2
<1>3. CASE field \notin {"SSID", "PASS"}
  <2>1. own[k] = field /\ field \notin {"SSID_SEC", "PASS_SEC", "PASS_THIRD"}
    BY <1>3, PagesAre
  <2>2. others[j] \in {other, "SSID_SEC", "PASS_SEC", "PASS_THIRD"}
    BY PagesAre
  <2> QED
    BY <2>1, <2>2
<1> QED
  BY <1>1, <1>2, <1>3

(* The pages are numbered from one, and only SSID and PASS have more.      *)
LEMMA PagesInOrder ==
  ASSUME NEW field \in Fields
  PROVE  /\ DOMAIN PagesOf(field) = 1..Len(PagesOf(field)) /\ Len(PagesOf(field)) \in {1, 2, 3}
         /\ \A k, j \in DOMAIN PagesOf(field) :
              PagesOf(field)[k] = PagesOf(field)[j] => k = j
         /\ field \notin {"SSID", "PASS"} <=> Len(PagesOf(field)) = 1
<1>1. /\ DOMAIN PagesOf(field) = 1..Len(PagesOf(field)) /\ Len(PagesOf(field)) \in {1, 2, 3}
      /\ field \notin {"SSID", "PASS"} <=> Len(PagesOf(field)) = 1
  <2>1. CASE field = "SSID"
    BY <2>1 DEF PagesOf
  <2>2. CASE field = "PASS"
    BY <2>2 DEF PagesOf
  <2>3. CASE field \notin {"SSID", "PASS"}
    <3>1. PagesOf(field) = <<field>>
      BY <2>3 DEF PagesOf
    <3>2. DOMAIN <<field>> = 1..1 /\ Len(<<field>>) = 1
      OBVIOUS
    <3> QED
      BY <2>3, <3>1, <3>2
  <2> QED
    BY <2>1, <2>2, <2>3
<1>2. ASSUME NEW k \in DOMAIN PagesOf(field), NEW j \in DOMAIN PagesOf(field),
             PagesOf(field)[k] = PagesOf(field)[j]
      PROVE  k = j
  <2>1. CASE field = "SSID"
    BY <1>2, <2>1, PagesAre
  <2>2. CASE field = "PASS"
    BY <1>2, <2>2, PagesAre
  <2>3. CASE field \notin {"SSID", "PASS"}
    BY <1>2, <2>3, PagesAre
  <2> QED
    BY <2>1, <2>2, <2>3
<1> QED
  BY <1>1, <1>2

(* The lists that the commands leave. *)
LEMMA RunOfField ==
  ASSUME NEW field \in Fields, NEW value, Fits(field, value)
  PROVE  LET pages == PagesToWrite(field, value) IN
         /\ Run(pages) /\ TextsFit(pages)
         /\ DOMAIN pages = 1..Len(PagesOf(field))
         /\ \A i \in DOMAIN pages : pages[i] = [field |-> field, page |-> i, value |-> value]
<1> DEFINE pages == PagesToWrite(field, value)
<1>1. DOMAIN pages = 1..Len(PagesOf(field)) /\ Len(PagesOf(field)) \in {1, 2, 3}
  BY PagesInOrder DEF PagesToWrite
<1>2. \A i \in DOMAIN pages : pages[i] = [field |-> field, page |-> i, value |-> value]
  BY DEF PagesToWrite
<1> HIDE DEF pages
<1>3. TextsFit(pages)
  BY <1>2 DEF TextsFit
<1>4. Run(pages)
  <2> SUFFICES ASSUME NEW i \in DOMAIN pages
               PROVE  /\ i < Len(PagesOf(field)) => i + 1 \in DOMAIN pages
                      /\ i > 1 => i - 1 \in DOMAIN pages
    BY <1>2 DEF Run
  <2> QED
    BY <1>1
<1> QED
  BY <1>1, <1>2, <1>3, <1>4 DEF pages

(* Parameters of one page, in any order.                                   *)
LEMMA RunOfSingles ==
  ASSUME NEW pages,
         \A i \in DOMAIN pages : Len(PagesOf(pages[i].field)) = 1 /\ pages[i].page = 1
                                 /\ Fits(pages[i].field, pages[i].value)
  PROVE  Run(pages) /\ TextsFit(pages)
<1>1. ~(1 < 1) /\ ~(1 > 1)
  OBVIOUS
<1>2. TextsFit(pages)
  BY DEF TextsFit
<1>3. \A i \in DOMAIN pages : /\ ~(pages[i].page < Len(PagesOf(pages[i].field)))
                               /\ ~(pages[i].page > 1)
  BY <1>1
<1> QED
  BY <1>2, <1>3 DEF Run

(* What is left of a list once its first page is written.                  *)
LEMMA RunOfRest ==
  ASSUME NEW S, NEW pages \in Seq(S), pages # <<>>, Run(pages), TextsFit(pages)
  PROVE  Run(Tail(pages)) /\ TextsFit(Tail(pages))
<1> DEFINE rest == Tail(pages)
<1>1. /\ rest \in Seq(S) /\ Len(rest) = Len(pages) - 1 /\ Len(pages) \in Nat \ {0}
      /\ \A i \in 1..(Len(pages) - 1) : rest[i] = pages[i + 1]
  OBVIOUS
<1>2. DOMAIN rest = 1..(Len(pages) - 1) /\ DOMAIN pages = 1..Len(pages)
  BY <1>1
<1> HIDE DEF rest
<1>3. TextsFit(rest)
  <2> SUFFICES ASSUME NEW i \in DOMAIN rest PROVE Fits(rest[i].field, rest[i].value)
    BY DEF TextsFit
  <2>1. i + 1 \in DOMAIN pages /\ rest[i] = pages[i + 1]
    BY <1>1, <1>2
  <2> QED
    BY <2>1 DEF TextsFit
<1>4. Run(rest)
  <2> SUFFICES ASSUME NEW i \in DOMAIN rest
               PROVE  /\ rest[i].page < Len(PagesOf(rest[i].field)) =>
                           /\ i + 1 \in DOMAIN rest /\ rest[i + 1].field = rest[i].field
                           /\ rest[i + 1].page = rest[i].page + 1
                           /\ rest[i + 1].value = rest[i].value
                      /\ i > 1 /\ rest[i].page > 1 =>
                           /\ rest[i - 1].field = rest[i].field
                           /\ rest[i - 1].page = rest[i].page - 1
                           /\ rest[i - 1].value = rest[i].value
    BY DEF Run
  <2>1. /\ i + 1 \in DOMAIN pages /\ rest[i] = pages[i + 1] /\ i \in Nat
        /\ i + 1 + 1 \in DOMAIN pages =>
             i + 1 \in DOMAIN rest /\ rest[i + 1] = pages[i + 1 + 1]
        /\ i > 1 => i - 1 \in DOMAIN rest /\ rest[i - 1] = pages[i + 1 - 1] /\ i + 1 > 1
    BY <1>1, <1>2
  <2> QED
    BY <2>1 DEF Run
<1> QED
  BY <1>3, <1>4 DEF rest

-------------------------------------------------------------------------------
(* A page is written. *)
LEMMA WriteReads ==
  ASSUME ParametersInv, ReadInv, WritePage
  PROVE  ReadInv'
<1> DEFINE step == Head(todo)
           types == PagesOf(step.field)
           type == types[step.page]
           slot == SlotFor(type)
           page == [type |-> type, content |-> ContentOf(step.field, step.value, step.page)]
<1>1. PICK values : todo \in Seq(Steps(command, values))
  BY DEF ParametersInv, StepsOK
<1>2. /\ todo # <<>> /\ step = todo[1] /\ step \in Steps(command, values)
      /\ todo' = Tail(todo) /\ DOMAIN todo = 1..Len(todo) /\ Len(todo) \in Nat \ {0}
  BY <1>1 DEF WritePage
<1>3. step.field \in Fields /\ step.page \in DOMAIN types
  BY <1>2 DEF Steps
<1>4. type \in PageTypes /\ type # "EMPTY"
  BY <1>3, PagesType
<1> HIDE DEF type
<1>5. /\ slot \in 1..Slots
      /\ eeprom[slot].type \in {type, "EMPTY"}
  BY <1>4, SlotType DEF ParametersInv
<1> HIDE DEF slot
<1>6. /\ eeprom' = [eeprom EXCEPT ![slot] = page]
      /\ programming' = [slot |-> slot, old |-> eeprom[slot]]
      /\ ram' = [ram EXCEPT ![step.field] = step.value]
      /\ before' = IF step.page > 1 THEN before
                   ELSE [before EXCEPT ![step.field] = ram[step.field]]
  BY DEF WritePage, type, slot
<1> HIDE DEF step
<1>7. /\ eeprom'[slot] = page
      /\ \A other \in 1..Slots : other # slot => eeprom'[other] = eeprom[other]
  BY <1>5, <1>6 DEF ParametersInv, PagesOK
<1>8. /\ DOMAIN ram = Fields /\ DOMAIN before = Fields
      /\ ram'[step.field] = step.value
      /\ \A field \in Fields : field # step.field => ram'[field] = ram[field]
  BY <1>3, <1>6 DEF ParametersInv, RestOK, ReadInv
<1>9. UniqueIn(eeprom')
  BY WriteKeeps DEF ParametersInv, UniquePages, UniqueIn
<1>10. /\ page.type = type
       /\ page = [type |-> type, content |-> ContentOf(step.field, step.value, step.page)]
  OBVIOUS
<1> HIDE DEF page
<1>11. Run(todo') /\ TextsFit(todo')
  BY <1>1, <1>2, RunOfRest DEF ReadInv
<1>12. /\ Len(todo') = Len(todo) - 1 /\ DOMAIN todo' = 1..(Len(todo) - 1)
       /\ \A i \in 1..(Len(todo) - 1) : todo'[i] = todo[i + 1]
  BY <1>1, <1>2
<1>20. todo' # <<>> => Head(todo') = todo'[1] /\ 1 \in DOMAIN todo'
  BY <1>1, <1>2
<1>13. FactoryOnce'
  <2> SUFFICES ASSUME NEW i \in DOMAIN todo', todo'[i].field = "FACTORY" PROVE FALSE
    BY DEF FactoryOnce
  <2>1. i + 1 \in DOMAIN todo /\ todo[i + 1].field = "FACTORY" /\ i + 1 # 1
    BY <1>2, <1>12
  <2> QED
    BY <2>1 DEF ReadInv, FactoryOnce
<1>14. \A k \in 1..step.page : \E written \in 1..Slots :
         eeprom'[written] = [type |-> types[k], content |-> ContentOf(step.field, step.value, k)]
  <2> SUFFICES ASSUME NEW k \in 1..step.page
               PROVE  \E written \in 1..Slots : eeprom'[written] =
                        [type |-> types[k], content |-> ContentOf(step.field, step.value, k)]
    OBVIOUS
  <2>1. step.page \in Nat /\ DOMAIN types = 1..Len(types) /\ Len(types) \in Nat
    BY <1>3, PagesInOrder
  <2>2. CASE k = step.page
    BY <1>5, <1>7, <1>10, <2>2 DEF type
  <2>3. CASE k # step.page
    <3>1. step.page > 1 /\ k \in 1..(step.page - 1) /\ k \in DOMAIN types
      BY <1>3, <2>1, <2>3
    <3>2. PICK written \in 1..Slots : eeprom[written] =
            [type |-> types[k], content |-> ContentOf(step.field, step.value, k)]
      BY <1>2, <3>1 DEF ReadInv, Written, step
    <3>3. types[k] # type /\ types[k] # "EMPTY"
      BY <1>3, <2>3, <3>1, PagesInOrder, PagesType DEF type
    <3>4. written # slot
      BY <1>5, <3>2, <3>3
    <3> QED
      BY <1>7, <3>2, <3>4
  <2> QED
    BY <2>2, <2>3
<1>15. Written'
  <2> SUFFICES ASSUME todo' # <<>>, Head(todo').page > 1
               PROVE  /\ ram'[Head(todo').field] = Head(todo').value
                      /\ \A k \in 1..(Head(todo').page - 1) : \E written \in 1..Slots :
                           eeprom'[written] = [type |-> PagesOf(Head(todo').field)[k],
                             content |-> ContentOf(Head(todo').field, Head(todo').value, k)]
    BY DEF Written
  <2>1. 2 \in DOMAIN todo /\ Head(todo') = todo[2]
    <3>1. Head(todo') = todo'[1] /\ 1 \in DOMAIN todo'
      BY <1>20
    <3> QED
      BY <1>2, <1>12, <3>1
  <2>2. /\ step.field = Head(todo').field /\ step.value = Head(todo').value
        /\ step.page = Head(todo').page - 1
    BY <1>2, <2>1 DEF ReadInv, Run
  <2> QED
    BY <1>8, <1>14, <2>2
<1>16. ASSUME NEW field \in Fields, field # step.field
       PROVE  Loaded(eeprom', field) = Loaded(eeprom, field)
  <2>1. ASSUME NEW other \in 1..Slots, NEW k \in DOMAIN PagesOf(field)
        PROVE  /\ eeprom'[other].type = PagesOf(field)[k] <=> eeprom[other].type = PagesOf(field)[k]
               /\ eeprom'[other].type = PagesOf(field)[k] => eeprom'[other] = eeprom[other]
    <3>1. PagesOf(field)[k] # type /\ PagesOf(field)[k] # "EMPTY"
      BY <1>3, <1>16, PagesDiffer, PagesType DEF type
    <3>2. CASE other = slot
      BY <1>5, <1>7, <1>10, <3>1, <3>2
    <3>3. CASE other # slot
      BY <1>7, <3>3
    <3> QED
      BY <3>2, <3>3
  <2> QED
    BY <2>1, LoadedSame
<1>17. AsLoaded'
  <2> SUFFICES ASSUME NEW field \in Fields, ~UnderWay(field)'
               PROVE  Loaded(eeprom', field) = ram'[field]
    BY DEF AsLoaded
  <2>1. CASE field # step.field
    <3>1. ~UnderWay(field)
      BY <2>1 DEF UnderWay, step
    <3> QED
      BY <1>8, <1>16, <2>1, <3>1 DEF ReadInv, AsLoaded
  <2>2. CASE field = step.field
    <3>1. ~(step.page < Len(types))
      <4> SUFFICES ASSUME step.page < Len(types) PROVE FALSE
        OBVIOUS
      <4>1. 2 \in DOMAIN todo /\ todo[2].field = step.field /\ todo[2].page = step.page + 1
        <5>1. 1 \in DOMAIN todo /\ 1 + 1 = 2
          BY <1>2
        <5> QED
          BY <1>2, <5>1 DEF ReadInv, Run
      <4>2. 1 \in DOMAIN todo' /\ todo'[1] = todo[2]
        BY <1>2, <1>12, <4>1
      <4>3. todo' # <<>> /\ Head(todo') = todo[2]
        <5>1. 1 \notin DOMAIN <<>>
          OBVIOUS
        <5> QED
          BY <1>20, <4>2, <5>1
      <4>4. todo[2].page > 1
        BY <1>3, <4>1, PagesInOrder
      <4> QED
        BY <2>2, <4>1, <4>3, <4>4 DEF UnderWay
    <3>2. DOMAIN types = 1..step.page
      BY <1>3, <3>1, PagesInOrder
    <3>3. Fits(step.field, step.value)
      BY <1>2 DEF ReadInv, TextsFit
    <3>4. PICK V : step.value \in Seq(V)
      BY <3>3 DEF Fits
    <3> HIDE DEF types
    <3>5. Loaded(eeprom', step.field) = step.value
      BY <1>3, <1>9, <1>14, <3>2, <3>3, <3>4, WrittenIsLoaded DEF Fits, types
    <3> QED
      BY <1>8, <2>2, <3>5
  <2> QED
    BY <2>1, <2>2
<1>18. BeforeKept'
  <2> SUFFICES ASSUME NEW field \in Fields, Len(PagesOf(field)) = 1,
                      eeprom'[slot].type = PagesOf(field)[1]
               PROVE  Loaded(Unprogram', field) = before'[field]
    BY <1>6 DEF BeforeKept
  <2>1. 1 \in DOMAIN PagesOf(field) /\ DOMAIN PagesOf(field) = 1..1
    BY PagesInOrder
  <2>2. field = step.field
    BY <1>3, <1>7, <1>10, <2>1, PagesDiffer DEF type
  <2>3. step.page = 1
    BY <1>3, <2>1, <2>2
  <2>4. before'[field] = ram[field]
    BY <1>6, <1>8, <2>2, <2>3
  <2>5. Unprogram' = eeprom
    <3>1. Unprogram' = [eeprom' EXCEPT ![slot] = eeprom[slot]]
      BY <1>6 DEF Unprogram
    <3>2. eeprom = [other \in 1..Slots |-> eeprom[other]]
      BY DEF ParametersInv, PagesOK
    <3> QED
      BY <1>5, <1>6, <3>1, <3>2
  <2>6. ~UnderWay(field)
    BY <2>3 DEF UnderWay, step
  <2> QED
    BY <2>4, <2>5, <2>6 DEF ReadInv, AsLoaded
<1>19. DOMAIN before' = Fields
  BY <1>6, <1>8
<1> QED
  BY <1>11, <1>13, <1>15, <1>17, <1>18, <1>19 DEF ReadInv

(* A command begins: it changes nothing before it writes. *)
LEMMA BeginReads ==
  ASSUME ReadInv, NEW name, NEW pages, Begin(name, pages), Run(pages), TextsFit(pages),
         pages # <<>> => Head(pages).page = 1, todo = <<>>,
         \A i \in DOMAIN pages :
           pages[i].field = "FACTORY" => i = 1 /\ ram["FACTORY"] = <<0, FALSE>>
  PROVE  ReadInv'
<1>1. todo' = pages /\ UNCHANGED <<ram, eeprom, programming, before>>
  BY DEF Begin, memory
<1>2. Written' /\ \A field \in Fields : ~UnderWay(field) /\ ~UnderWay(field)'
  BY <1>1, ~(1 > 1) DEF Written, UnderWay
<1>3. AsLoaded'
  BY <1>1, <1>2 DEF AsLoaded, ReadInv
<1>4. BeforeKept'
  BY <1>1 DEF BeforeKept, Unprogram, ReadInv
<1> QED
  BY <1>1, <1>2, <1>3, <1>4 DEF ReadInv, FactoryOnce

(* Of one parameter, a command writes one page after the other. *)
LEMMA FieldReads ==
  ASSUME ReadInv, todo = <<>>, NEW name, NEW field \in Fields, NEW value, Fits(field, value),
         field = "FACTORY" => ram["FACTORY"] = <<0, FALSE>>,
         Begin(name, PagesToWrite(field, value))
  PROVE  ReadInv'
<1> DEFINE pages == PagesToWrite(field, value)
<1>1. /\ Run(pages) /\ TextsFit(pages) /\ DOMAIN pages = 1..Len(PagesOf(field))
      /\ \A i \in DOMAIN pages : pages[i] = [field |-> field, page |-> i, value |-> value]
  BY RunOfField
<1>2. Len(PagesOf(field)) \in {1, 2, 3}
      /\ (field \notin {"SSID", "PASS"} => Len(PagesOf(field)) = 1)
  BY PagesInOrder
<1>3. Head(pages) = pages[1] /\ 1 \in DOMAIN pages
  BY <1>1, <1>2 DEF PagesToWrite
<1> HIDE DEF pages
<1>4. ASSUME field = "FACTORY" PROVE \A i \in DOMAIN pages : i = 1
  <2>1. Len(PagesOf(field)) = 1
    BY <1>2, <1>4
  <2>2. DOMAIN pages = 1..1
    BY <1>1, <2>1
  <2> QED
    BY <2>2
<1>5. pages # <<>> => Head(pages).page = 1
  BY <1>1, <1>3
<1>6. \A i \in DOMAIN pages :
        pages[i].field = "FACTORY" => i = 1 /\ ram["FACTORY"] = <<0, FALSE>>
  <2> SUFFICES ASSUME NEW i \in DOMAIN pages, pages[i].field = "FACTORY"
               PROVE  i = 1 /\ ram["FACTORY"] = <<0, FALSE>>
    OBVIOUS
  <2>1. pages[i] = [field |-> field, page |-> i, value |-> value]
    BY <1>1
  <2>2. field = "FACTORY"
    BY <2>1
  <2> QED
    BY <1>4, <2>2
<1> QED
  BY <1>1, <1>5, <1>6, BeginReads DEF pages

(* Nothing that is written is touched. *)
LEMMA ReadFrame ==
  ASSUME ReadInv, UNCHANGED <<ram, eeprom, todo, before>>,
         programming' \in {programming, NoPage}
  PROVE  ReadInv'
<1>1. BeforeKept'
  BY DEF BeforeKept, Unprogram, ReadInv
<1>2. Written' /\ FactoryOnce'
  BY DEF Written, FactoryOnce, ReadInv
<1>3. AsLoaded'
  BY DEF AsLoaded, UnderWay, ReadInv
<1> QED
  BY <1>1, <1>2, <1>3 DEF ReadInv

(* A reset loads what there is. *)
LEMMA ResetReads ==
  ASSUME Reset
  PROVE  ReadInv'
<1>1. /\ ram' = [field \in Fields |-> Loaded(eeprom', field)]
      /\ todo' = <<>> /\ before' = ram' /\ programming' = NoPage
  BY DEF Reset
<1>2. Run(todo') /\ TextsFit(todo') /\ FactoryOnce' /\ Written' /\ BeforeKept'
  BY <1>1 DEF Run, TextsFit, FactoryOnce, Written, BeforeKept
<1>3. AsLoaded'
  BY <1>1 DEF AsLoaded
<1> QED
  BY <1>1, <1>2, <1>3 DEF ReadInv

(* At first nothing is written, and all parameters are their defaults.     *)
LEMMA ReadStart == Init => ReadInv
<1> SUFFICES ASSUME Init PROVE ReadInv
  OBVIOUS
<1>1. Run(todo) /\ TextsFit(todo) /\ FactoryOnce /\ Written /\ BeforeKept
  BY DEF Init, Run, TextsFit, FactoryOnce, Written, BeforeKept
<1>2. ASSUME NEW field \in Fields PROVE Loaded(eeprom, field) = ram[field]
  <2>1. \A slot \in 1..Slots : eeprom[slot].type = "EMPTY"
    BY DEF Init, EmptyPage
  <2>2. PagesOf(field)[1] # "EMPTY"
    BY PagesType
  <2>3. ~Present(eeprom, PagesOf(field)[1])
    BY <2>1, <2>2 DEF Present
  <2>4. Loaded(eeprom, field) = Default(field)
    BY <2>3, LoadedIs
  <2> QED
    BY <2>4 DEF Init
<1> QED
  BY <1>1, <1>2 DEF ReadInv, AsLoaded, Init

(* The values the commands write fit their pages. *)
LEMMA TextFits ==
  ASSUME NEW field \in Texts, NEW value \in TextValues(field)
  PROVE  field \in Fields /\ field # "FACTORY" /\ Fits(field, value)
<1>1. /\ field \in Fields /\ field # "FACTORY" /\ value \in Seq(Nat)
      /\ field \in {"SSID", "PASS"} => Len(value) <= Len(PagesOf(field))
  BY ParametersAssumption DEF Fields
<1>2. field \notin {"SSID", "PASS"} => Len(PagesOf(field)) = 1
  BY <1>1, PagesInOrder
<1>3. Len(PagesOf(field)) > 1 => field \in {"SSID", "PASS"}
  BY <1>2, ~(1 > 1)
<1>4. \E V : value \in Seq(V)
  BY <1>1
<1> QED
  BY <1>1, <1>3, <1>4 DEF Fits

(* A parameter of one page takes any value.                                *)
LEMMA SingleFits ==
  ASSUME NEW field \in Fields, field \notin {"SSID", "PASS"}, NEW V, NEW value \in Seq(V)
  PROVE  Len(PagesOf(field)) = 1 /\ Fits(field, value)
<1>1. Len(PagesOf(field)) = 1
  BY PagesInOrder
<1> QED
  BY <1>1 DEF Fits

(* An address is such a parameter.                                         *)
LEMMA StaticFields ==
  ASSUME NEW field \in Static
  PROVE  field \in Fields /\ field \notin {"SSID", "PASS", "FACTORY"}
BY ParametersAssumption DEF Fields

(* The list of its only page.                                              *)
LEMMA SinglePage ==
  ASSUME NEW field \in Fields, field \notin {"SSID", "PASS"}, NEW value
  PROVE  /\ PagesToWrite(field, value) = <<[field |-> field, page |-> 1, value |-> value]>>
         /\ PagesToWrite(field, value)[1] = [field |-> field, page |-> 1, value |-> value]
<1>1. PagesOf(field) = <<field>> /\ DOMAIN <<field>> = 1..1
  BY DEF PagesOf
<1> DEFINE step(k) == [field |-> field, page |-> k, value |-> value]
<1>2. PagesToWrite(field, value) = [k \in 1..1 |-> step(k)]
  BY <1>1 DEF PagesToWrite
<1> HIDE DEF step
<1>3. [k \in 1..1 |-> step(k)] = <<step(1)>>
  OBVIOUS
<1> QED
  BY <1>2, <1>3 DEF step

(* The addresses are cleared one after the other. *)
LEMMA OffReads ==
  ASSUME ReadInv, todo = <<>>, StaticOff
  PROVE  ReadInv'
<1> DEFINE pages == [i \in DOMAIN Addresses |-> PagesToWrite(Addresses[i], Blank)[1]]
<1>1. Begin("OFF", pages)
  BY DEF StaticOff
<1>2. ASSUME NEW i \in DOMAIN pages
      PROVE  /\ Len(PagesOf(pages[i].field)) = 1 /\ pages[i].page = 1
             /\ Fits(pages[i].field, pages[i].value) /\ pages[i].field # "FACTORY"
  <2>1. Addresses[i] \in Static /\ Blank \in Seq(Nat)
    BY DEF Static, Blank
  <2>2. pages[i] = [field |-> Addresses[i], page |-> 1, value |-> Blank]
    BY <2>1, StaticFields, SinglePage
  <2> QED
    BY <2>1, <2>2, StaticFields, SingleFits
<1>4. 1 \in DOMAIN pages
  <2>1. "IP" \in Static /\ Addresses \in Seq(STRING)
    BY ParametersAssumption
  <2>2. PICK i \in DOMAIN Addresses : Addresses[i] = "IP"
    BY <2>1 DEF Static
  <2> QED
    BY <2>1, <2>2
<1>7. PICK values : pages \in Seq(Steps("OFF", values))
  BY OffSteps DEF StepsOK
<1> HIDE DEF pages
<1>3. Head(pages) = pages[1]
  BY <1>4, <1>7
<1>5. Run(pages) /\ TextsFit(pages)
  BY <1>2, RunOfSingles
<1>6. Head(pages).page = 1
  BY <1>2, <1>3, <1>4
<1> QED
  BY <1>1, <1>2, <1>5, <1>6, BeginReads

(* The factory's offset is set with the first one. *)
LEMMA OffsetReads ==
  ASSUME ReadInv, todo = <<>>, NEW offset, SetOffset(offset)
  PROVE  ReadInv'
<1> DEFINE factory == [field |-> "FACTORY", page |-> 1, value |-> <<offset, TRUE>>]
           own     == [field |-> "OFFSET", page |-> 1, value |-> <<offset>>]
           none    == ram["FACTORY"] = <<0, FALSE>>
           pages   == (IF none THEN <<factory>> ELSE <<>>) \o <<own>>
<1>1. "FACTORY" \in Fields /\ "OFFSET" \in Fields
  BY DEF Fields
<1>2. Begin("OFFSET", pages)
  <2>1. PagesToWrite("FACTORY", <<offset, TRUE>>) = <<factory>>
        /\ PagesToWrite("OFFSET", <<offset>>) = <<own>>
    BY <1>1, SinglePage
  <2> QED
    BY <2>1 DEF SetOffset
<1>3. /\ Len(PagesOf("FACTORY")) = 1 /\ Fits("FACTORY", <<offset, TRUE>>)
      /\ Len(PagesOf("OFFSET")) = 1 /\ Fits("OFFSET", <<offset>>)
  <2>1. <<offset, TRUE>> \in Seq({offset, TRUE}) /\ <<offset>> \in Seq({offset})
    OBVIOUS
  <2> QED
    BY <1>1, <2>1, SingleFits
<1>4. /\ factory.field = "FACTORY" /\ factory.page = 1 /\ factory.value = <<offset, TRUE>>
      /\ own.field = "OFFSET" /\ own.page = 1 /\ own.value = <<offset>>
  OBVIOUS
<1> HIDE DEF factory, own
<1>5. CASE none
  <2>1. pages = <<factory>> \o <<own>>
    BY <1>5
  <2>2. <<factory>> \o <<own>> = <<factory, own>>
    <3> DEFINE two == <<factory>> \o <<own>>
    <3>1. /\ <<factory>> \in Seq({factory, own}) /\ <<own>> \in Seq({factory, own})
          /\ <<factory, own>> \in Seq({factory, own}) /\ Len(<<factory, own>>) = 2
          /\ <<factory, own>>[1] = factory /\ <<factory, own>>[2] = own
      OBVIOUS
    <3>2. two \in Seq({factory, own}) /\ Len(two) = 2 /\ two[1] = factory /\ two[2] = own
      BY <3>1
    <3> HIDE DEF two
    <3>3. two = <<factory, own>>
      BY <3>1, <3>2, SeqEqual
    <3> QED
      BY <3>3 DEF two
  <2>3. DOMAIN <<factory, own>> = {1, 2} /\ Head(<<factory, own>>) = factory
    OBVIOUS
  <2> HIDE DEF pages
  <2>4. \A i \in DOMAIN pages :
          /\ Len(PagesOf(pages[i].field)) = 1 /\ pages[i].page = 1
          /\ Fits(pages[i].field, pages[i].value)
          /\ pages[i].field = "FACTORY" => i = 1
    BY <1>3, <1>4, <2>1, <2>2, <2>3
  <2>5. Run(pages) /\ TextsFit(pages) /\ Head(pages).page = 1
    BY <1>4, <2>1, <2>2, <2>3, <2>4, RunOfSingles
  <2> QED
    BY <1>2, <1>5, <2>4, <2>5, BeginReads
<1>6. CASE ~none
  <2>1. pages = <<>> \o <<own>>
    BY <1>6
  <2>2. <<>> \o <<own>> = <<own>> /\ DOMAIN <<own>> = {1} /\ Head(<<own>>) = own
    OBVIOUS
  <2> HIDE DEF pages
  <2>3. \A i \in DOMAIN pages :
          /\ Len(PagesOf(pages[i].field)) = 1 /\ pages[i].page = 1
          /\ Fits(pages[i].field, pages[i].value)
          /\ pages[i].field # "FACTORY"
    BY <1>3, <1>4, <2>1, <2>2
  <2>4. Run(pages) /\ TextsFit(pages) /\ Head(pages).page = 1
    BY <1>4, <2>1, <2>2, <2>3, RunOfSingles
  <2> QED
    BY <1>2, <2>3, <2>4, BeginReads
<1> QED
  BY <1>5, <1>6

(* Every step keeps what is written and what is loaded of it. *)
LEMMA ReadStep ==
  ParametersInv /\ ConnectionInv /\ ReadInv /\ [Next]_vars => ReadInv'
<1> SUFFICES ASSUME ParametersInv, ConnectionInv, ReadInv, [Next]_vars PROVE ReadInv'
  OBVIOUS
<1>0. ASSUME NEW name, NEW pages, Begin(name, pages) PROVE todo = <<>>
  BY <1>0 DEF Begin, ConnectionInv
<1>1. ASSUME NEW field \in Texts, SetText(field) PROVE ReadInv'
  <2>1. PICK value \in TextValues(field) : Begin(field, PagesToWrite(field, value))
    BY <1>1 DEF SetText
  <2> QED
    BY <1>0, <2>1, TextFits, FieldReads
<1>2. ASSUME NEW field \in Static, SetAddress(field) PROVE ReadInv'
  <2>1. PICK value \in Address : Begin("STATIC", PagesToWrite(field, value))
    BY <1>2 DEF SetAddress
  <2>2. value \in Seq(Nat)
    BY ParametersAssumption
  <2>3. field \in Fields /\ field # "FACTORY" /\ Fits(field, value)
    BY <2>2, StaticFields, SingleFits
  <2> QED
    BY <1>0, <2>1, <2>3, FieldReads
<1>3. CASE StaticOff
  BY <1>0, <1>3, OffReads DEF StaticOff
<1>4. CASE FactoryReset
  <2> DEFINE value == <<ram["FACTORY"][1]>>
  <2>1. Begin("OFFSET", PagesToWrite("OFFSET", value))
    BY <1>4 DEF FactoryReset
  <2>2. "OFFSET" \in Fields /\ value \in Seq({ram["FACTORY"][1]})
    BY DEF Fields
  <2> HIDE DEF value
  <2>3. Fits("OFFSET", value)
    BY <2>2, SingleFits
  <2> QED
    BY <1>0, <2>1, <2>2, <2>3, FieldReads
<1>5. ASSUME NEW offset \in Offsets, SetOffset(offset) PROVE ReadInv'
  BY <1>0, <1>5, OffsetReads DEF SetOffset
<1>6. CASE Programmed
  BY <1>6, ReadFrame DEF Programmed, running
<1>7. CASE WritePage
  BY <1>7, WriteReads
<1>8. CASE EndCommand
  BY <1>8, ReadFrame DEF EndCommand, memory
<1>9. CASE ConfigFails \/ ConnectFails \/ Connect \/ StopRadio
  BY <1>9, ReadFrame
  DEF ConfigFails, ConnectFails, Connect, StopRadio, MayConnect, memory, running
<1>10. CASE Reset
  BY <1>10, ResetReads
<1>11. CASE UNCHANGED vars
  BY <1>11, ReadFrame DEF vars, memory, running
<1> QED
  BY <1>1, <1>2, <1>3, <1>4, <1>5, <1>6, <1>7, <1>8, <1>9, <1>10, <1>11 DEF Next

-------------------------------------------------------------------------------
(* A parameter that is partly written is being changed by a command, and   *)
(* has more than one page.                                                 *)
LEMMA UnderWayChanges ==
  ASSUME ParametersInv, NEW field \in Fields, UnderWay(field)
  PROVE  field \in Changing /\ Len(PagesOf(field)) > 1
<1>1. PICK values : todo \in Seq(Steps(command, values))
  BY DEF ParametersInv, StepsOK
<1>2. Head(todo) = todo[1] /\ 1 \in DOMAIN todo /\ Head(todo) \in Steps(command, values)
  BY <1>1 DEF UnderWay
<1>3. field = Head(todo).field /\ Head(todo).page > 1 /\ Head(todo).page \in DOMAIN PagesOf(field)
  BY <1>2 DEF UnderWay, Steps
<1> DEFINE page == Head(todo).page
<1>4. page \in 1..Len(PagesOf(field)) /\ Len(PagesOf(field)) \in Nat /\ page > 1
  BY <1>3, PagesInOrder
<1> HIDE DEF page
<1> QED
  BY <1>2, <1>3, <1>4 DEF Changing

(* What a reset makes of the parameters. *)
Unmixed(field) ==
  \/ ram'[field] = ram[field]
  \/ Len(PagesOf(field)) = 1 /\ Unprogrammed(field)
       /\ ram'[field] \in {before[field], Default(field)}
  \/ Len(PagesOf(field)) > 1 /\ (field \in Changing \/ Unprogrammed(field))

(* By what the programmed page is left with: old contents, new, or none.   *)
LEMMA ResetMixesNothing ==
  ASSUME ParametersInv, ReadInv, Reset, NEW field \in Fields
  PROVE  Unmixed(field)
<1> DEFINE slot == programming.slot
<1>1. ram'[field] = Loaded(eeprom', field)
  BY DEF Reset
<1>2. Len(PagesOf(field)) = 1 \/ Len(PagesOf(field)) > 1
  BY PagesInOrder
<1>3. UnderWay(field) \/ Loaded(eeprom, field) = ram[field]
  BY DEF ReadInv, AsLoaded
<1>4. CASE UnderWay(field)
  BY <1>4, UnderWayChanges DEF Unmixed
<1>5. CASE ~UnderWay(field) /\ Len(PagesOf(field)) > 1 /\ Unprogrammed(field)
  BY <1>5 DEF Unmixed
<1>6. CASE ~UnderWay(field) /\ programming = NoPage
  <2>1. eeprom' = eeprom
    BY <1>6 DEF Reset
  <2> QED
    BY <1>1, <1>3, <1>6, <2>1 DEF Unmixed
<1>7. CASE ~UnderWay(field) /\ programming # NoPage
  <2>1. slot \in 1..Slots /\ programming.old.type \in {"EMPTY", eeprom[slot].type}
    BY <1>7 DEF ParametersInv, ProgrammingOK
  <2>2. PICK page \in {programming.old, eeprom[slot], EmptyPage} :
          eeprom' = [eeprom EXCEPT ![slot] = page]
    BY <1>7 DEF Reset
  <2>3. page.type \in {"EMPTY", eeprom[slot].type}
    BY <2>1, <2>2 DEF EmptyPage
  <2> HIDE DEF slot
  <2>4. /\ eeprom'[slot] = page
        /\ \A other \in 1..Slots : other # slot => eeprom'[other] = eeprom[other]
    BY <2>1, <2>2 DEF ParametersInv, PagesOK
  <2>5. CASE ~Unprogrammed(field)
    <3>1. ASSUME NEW other \in 1..Slots, NEW k \in DOMAIN PagesOf(field)
          PROVE  /\ eeprom[other].type = PagesOf(field)[k] <=> eeprom'[other].type = PagesOf(field)[k]
                 /\ eeprom[other].type = PagesOf(field)[k] => eeprom[other] = eeprom'[other]
      <4>1. PagesOf(field)[k] # "EMPTY" /\ eeprom[slot].type # PagesOf(field)[k]
        BY <1>7, <2>5, PagesType DEF Unprogrammed, slot
      <4>2. CASE other = slot
        BY <2>3, <2>4, <4>1, <4>2
      <4>3. CASE other # slot
        BY <2>4, <4>3
      <4> QED
        BY <4>2, <4>3
    <3>2. Loaded(eeprom, field) = Loaded(eeprom', field)
      BY <3>1, LoadedSame
    <3> QED
      BY <1>1, <1>3, <1>7, <3>2 DEF Unmixed
  <2>6. CASE Unprogrammed(field) /\ Len(PagesOf(field)) = 1
    <3>1. eeprom[slot].type = PagesOf(field)[1] /\ PagesOf(field)[1] # "EMPTY"
      <4>1. DOMAIN PagesOf(field) = 1..1
        BY <2>6, PagesInOrder
      <4> QED
        BY <2>6, <4>1, PagesType DEF Unprogrammed, slot
    <3>2. CASE page = programming.old
      <4>1. Loaded(Unprogram, field) = before[field]
        BY <1>7, <2>6, <3>1 DEF ReadInv, BeforeKept, slot
      <4>2. eeprom' = Unprogram
        BY <2>2, <3>2 DEF Unprogram, slot
      <4> QED
        BY <1>1, <2>6, <4>1, <4>2 DEF Unmixed
    <3>3. CASE page = eeprom[slot]
      <4>1. eeprom' = eeprom
        <5>1. eeprom = [other \in 1..Slots |-> eeprom[other]]
          BY DEF ParametersInv, PagesOK
        <5> QED
          BY <2>1, <2>2, <3>3, <5>1
      <4> QED
        BY <1>1, <1>3, <1>7, <4>1 DEF Unmixed
    <3>4. CASE page = EmptyPage
      <4>1. ~Present(eeprom', PagesOf(field)[1])
        <5> SUFFICES ASSUME NEW other \in 1..Slots, eeprom'[other].type = PagesOf(field)[1]
                     PROVE  FALSE
          BY DEF Present
        <5>1. other # slot
          BY <2>4, <3>1, <3>4 DEF EmptyPage
        <5>2. eeprom[other].type = eeprom[slot].type
          BY <2>4, <3>1, <5>1
        <5> QED
          BY <2>1, <3>1, <5>1, <5>2 DEF ParametersInv, UniquePages
      <4>2. Loaded(eeprom', field) = Default(field)
        BY <4>1, LoadedIs
      <4> QED
        BY <1>1, <2>6, <4>2 DEF Unmixed
    <3> QED
      BY <2>2, <3>2, <3>3, <3>4
  <2> QED
    BY <1>2, <1>5, <1>7, <2>5, <2>6
<1> QED
  BY <1>4, <1>6, <1>7

(* The inductive invariant holds of the specification.                     *)
LEMMA ReadAlways == Spec => [](ParametersInv /\ ConnectionInv /\ ReadInv)
<1>1. Init => ParametersInv /\ ConnectionInv /\ ReadInv
  BY ParametersStart, ReadStart, ConnectionStart
<1>2. ParametersInv /\ ConnectionInv /\ ReadInv /\ [Next]_vars
        => (ParametersInv /\ ConnectionInv /\ ReadInv)'
  BY ParametersStep, ConnectionStep, ReadStep
<1> QED
  BY <1>1, <1>2, PTL DEF Spec

(* config_read gives back what config_write was given, for every text that *)
(* fits its pages and whatever resets have left in the others.             *)
THEOREM ParametersReadBack == Spec => []ReadBack
<1>1. ParametersInv /\ ConnectionInv /\ ReadInv => ReadBack
  BY UnderWayChanges DEF ReadInv, AsLoaded, ReadBack
<1> QED
  BY <1>1, ReadAlways, PTL

(* A reset in the middle of config_write_eeprom touches no other parameter *)
(* than the one whose page is being programmed.                            *)
THEOREM ResetsMixNothing == Spec => NoMixture
<1>1. ASSUME ParametersInv, ReadInv, Reset
      PROVE  \A field \in Fields :
       \/ ram'[field] = ram[field]
       \/ Len(PagesOf(field)) = 1 /\ Unprogrammed(field)
            /\ ram'[field] \in {before[field], Default(field)}
       \/ Len(PagesOf(field)) > 1 /\ (field \in Changing \/ Unprogrammed(field))
  BY <1>1, ResetMixesNothing DEF Unmixed
<1>2. ParametersInv /\ ConnectionInv /\ ReadInv =>
        [Reset => \A field \in Fields :
       \/ ram'[field] = ram[field]
       \/ Len(PagesOf(field)) = 1 /\ Unprogrammed(field)
            /\ ram'[field] \in {before[field], Default(field)}
       \/ Len(PagesOf(field)) > 1 /\ (field \in Changing \/ Unprogrammed(field))]_vars
  BY <1>1
<1> QED
  BY <1>2, ReadAlways, PTL DEF NoMixture

(* Only the programming of its own page changes the factory's offset.      *)
LEMMA FactoryStep ==
  ASSUME ParametersInv, ReadInv, [Next]_vars,
         ram["FACTORY"][2], ram'["FACTORY"] # ram["FACTORY"]
  PROVE  programming # NoPage /\ eeprom[programming.slot].type = "FACTORY"
<1>1. "FACTORY" \in Fields /\ PagesOf("FACTORY") = <<"FACTORY">>
  BY DEF Fields, PagesOf
<1>2. CASE WritePage
  <2> DEFINE step == Head(todo)
  <2>1. PICK values : todo \in Seq(Steps(command, values))
    BY DEF ParametersInv, StepsOK
  <2>2. step = todo[1] /\ 1 \in DOMAIN todo
    BY <1>2, <2>1 DEF WritePage
  <2>3. ram' = [ram EXCEPT ![step.field] = step.value]
    BY <1>2 DEF WritePage
  <2> HIDE DEF step
  <2>4. step.field = "FACTORY"
    BY <1>1, <2>3 DEF ParametersInv, RestOK
  <2>5. ram["FACTORY"] = <<0, FALSE>>
    BY <2>2, <2>4 DEF ReadInv, FactoryOnce
  <2>6. ~ram["FACTORY"][2]
    BY <2>5
  <2> QED
    BY <2>6
<1>3. CASE Reset
  <2>1. Unmixed("FACTORY") /\ Len(PagesOf("FACTORY")) = 1
    BY <1>1, <1>3, ResetMixesNothing
  <2>2. Unprogrammed("FACTORY")
    BY <2>1, ~(1 > 1) DEF Unmixed
  <2> QED
    BY <1>1, <2>2 DEF Unprogrammed
<1>4. CASE UNCHANGED vars
  BY <1>4 DEF vars, memory
<1>5. CASE Next /\ ~WritePage /\ ~Reset
  <2>1. ram' = ram
    BY <1>5 DEF Next, SetText, SetAddress, StaticOff, FactoryReset, SetOffset, Begin, memory,
                Programmed, EndCommand, ConfigFails, ConnectFails, Connect, StopRadio, MayConnect
  <2> QED
    BY <2>1
<1> QED
  BY <1>2, <1>3, <1>4, <1>5

(* cmd_temp_offset and cmd_humidity_offset take the first offset for the   *)
(* factory's and no later one, and no reset loses it once it is written.   *)
THEOREM FactoryOffsetKept == Spec => FactoryKept
<1>1. ParametersInv /\ ConnectionInv /\ ReadInv /\ [Next]_vars =>
        [ram["FACTORY"][2] /\ ram'["FACTORY"] # ram["FACTORY"] =>
           programming # NoPage /\ eeprom[programming.slot].type = "FACTORY"]_vars
  BY FactoryStep
<1> QED
  BY <1>1, ReadAlways, PTL DEF Spec, FactoryKept
===============================================================================
