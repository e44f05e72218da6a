------------------------------- MODULE Parameters -------------------------------
(***************************************************************************)
(* What the user configures, in its three copies:                          *)
(*   ram      the variables of core/config.c, which the firmware uses      *)
(*   eeprom   the pages of src/OS/nonvolatile_memory.c, read at a start    *)
(*   chip     the IP settings the CC3100 keeps, its memory nonvolatile too *)
(* and "cached", the copies wifi_connect (CC3100/wifi_cc3100.c) compares   *)
(* with to tell whether the chip needs new ones.                           *)
(*                                                                         *)
(* A command of core/commands.c assigns ram, writes the pages one after    *)
(* the other, then closes the socket or leaves the network.  A page is     *)
(* programmed by the hardware after config_write_eeprom has returned; the  *)
(* next access waits for it.  The device may be reset anywhere.            *)
(*                                                                         *)
(* A value is a sequence of pieces, each as long as a page.  Parameters of *)
(* one page that are treated alike are one: PORT stands for all that close *)
(* the socket, AUTH for all of one page that leave the network.  The       *)
(* offsets of temperature and humidity are one; that of pressure keeps its *)
(* flag beyond the end of an array and is left out.                        *)
(*                                                                         *)
(* An operator named Mutant... is the one below it with a bug; it shows    *)
(* that a property notices (README) and the specification never uses it.   *)
(***************************************************************************)
EXTENDS Naturals, Sequences, FiniteSets

CONSTANTS
  Slots,         \* EEPROM_SIZE / EEPROM_PAGE_SIZE - 1 pages
  Texts,         \* of SSID, PASS, AUTH, PORT those that are set
  TextValues(_), \* the values each of them is set to
  Addresses,     \* IP and some of MASK, GATEWAY, DNS, in this order
  Address,       \* what these are set to
  Offsets,       \* the offsets that are set
  MaxCommands,   \* bound: commands
  MaxFaults      \* bound: resets and failures of the chip

PagesOf(field) ==
  CASE field = "SSID" -> <<"SSID", "SSID_SEC">>
    [] field = "PASS" -> <<"PASS", "PASS_SEC", "PASS_THIRD">>
    [] OTHER          -> <<field>>

Static    == {Addresses[i] : i \in DOMAIN Addresses}
Fields    == Texts \cup Static \cup {"OFFSET", "FACTORY"}
PageTypes == UNION {{PagesOf(field)[k] : k \in DOMAIN PagesOf(field)} : field \in Fields}
Blank     == <<>>

ASSUME ParametersAssumption ==
  /\ Texts \subseteq {"SSID", "PASS", "AUTH", "PORT"} /\ Addresses \in Seq(STRING)
  /\ Static \cap {"SSID", "SSID_SEC", "PASS", "PASS_SEC", "PASS_THIRD", "AUTH", "PORT",
                 "OFFSET", "FACTORY", "EMPTY"} = {}
  /\ "IP" \in Static /\ Blank \notin Address /\ Address \subseteq Seq(Nat)
  /\ \A field \in Texts : \A value \in TextValues(field) :
       value \in Seq(Nat) /\ (field \in {"SSID", "PASS"} => Len(value) <= Len(PagesOf(field)))
  /\ IsFiniteSet(PageTypes) /\ Slots \in Nat /\ Slots >= Cardinality(PageTypes)
  /\ MaxCommands \in Nat /\ MaxFaults \in Nat

VARIABLES
  ram,         \* Fields -> values
  eeprom,      \* 1..Slots -> pages
  programming, \* the page the hardware is working on, with what it held
  command,     \* what is being executed
  todo,        \* the pages it has still to write
  cached,      \* cc3100_static_ip and the others
  chip,        \* the IP settings of the chip
  link,        \* STOPPED, DISCONNECTED, CONNECTED
  joined,      \* history: the SSID of the network it is connected to
  before,      \* history: what a parameter was before it was last assigned
  misled,      \* history: the chip does not have what cached says
  commands, faults

memory  == <<ram, eeprom, programming, before>>
running == <<command, todo, commands>>
radio   == <<cached, chip, link, joined, misled>>
vars    == <<memory, running, radio, faults>>

-------------------------------------------------------------------------------
(***************************************************************************)
(* nonvolatile_memory.c                                                    *)
(***************************************************************************)
EmptyPage == [type |-> "EMPTY", content |-> Blank]
NoPage    == [slot |-> 0, old |-> EmptyPage]

SlotsWith(type) == {slot \in 1..Slots : eeprom[slot].type = type}
First(slots)    == CHOOSE slot \in slots : \A other \in slots : slot <= other

(* config_write_eeprom: the page of this type, or the first empty one *)
MutantSlotFor(type) ==
  First(SlotsWith(type) \cup SlotsWith("EMPTY"))
SlotFor(type) ==
  First(IF SlotsWith(type) # {} THEN SlotsWith(type) ELSE SlotsWith("EMPTY"))

(* config_write, page by page: all of them, however short the value *)
MutantPagesToWrite(field, value) ==
  [k \in 1..(IF value = Blank \/ field \notin {"SSID", "PASS"} THEN 1 ELSE Len(value)) |->
    [field |-> field, page |-> k, value |-> value]]
PagesToWrite(field, value) ==
  [k \in DOMAIN PagesOf(field) |-> [field |-> field, page |-> k, value |-> value]]

ContentOf(field, value, page) ==
  CASE Len(PagesOf(field)) = 1                        -> value
    [] Len(PagesOf(field)) > 1 /\ page <= Len(value)  -> <<value[page]>>
    [] Len(PagesOf(field)) > 1 /\ ~(page <= Len(value)) -> Blank

(* config_read: a missing first page is a missing parameter, for which the *)
(* loaders of config.c have a default; a missing later one is no text      *)
Default(field) ==
  CASE field = "OFFSET"  -> <<0>>
    [] field = "FACTORY" -> <<0, FALSE>>
    [] OTHER             -> Blank

Content(pages, type) ==
  LET found == {slot \in 1..Slots : pages[slot].type = type}
  IN  IF found = {} THEN Blank ELSE pages[First(found)].content

Loaded(pages, field) ==
  LET types == PagesOf(field)
      text[k \in 0..Len(types)] ==
        IF k = 0 THEN Blank ELSE text[k - 1] \o Content(pages, types[k])
  IN  IF \E slot \in 1..Slots : pages[slot].type = types[1]
        THEN text[Len(types)] ELSE Default(field)

(* The EEPROM is ready: the next access has waited for it, or nobody. *)
Programmed ==
  /\ programming # NoPage
  /\ programming' = NoPage
  /\ UNCHANGED <<ram, eeprom, before, running, radio, faults>>

(* One assignment of a parameter, and the write of one of its pages. *)
WritePage ==
  /\ todo # <<>> /\ programming = NoPage
  /\ LET step == Head(todo)
         type == PagesOf(step.field)[step.page]
         slot == SlotFor(type)
     IN  /\ ram' = [ram EXCEPT ![step.field] = step.value]
         /\ eeprom' = [eeprom EXCEPT ![slot] =
              [type |-> type, content |-> ContentOf(step.field, step.value, step.page)]]
         /\ programming' = [slot |-> slot, old |-> eeprom[slot]]
         /\ before' = IF step.page > 1 THEN before
                      ELSE [before EXCEPT ![step.field] = ram[step.field]]
  /\ todo' = Tail(todo)
  /\ UNCHANGED <<command, commands, radio, faults>>

-------------------------------------------------------------------------------
(***************************************************************************)
(* commands.c                                                              *)
(***************************************************************************)
Idle == command = "NONE"

StaticOf(values) == [field \in Static |-> values[field]]
NoStatic         == [field \in Static |-> Blank]
StaticSet(addresses) == \A field \in Static : addresses[field] # Blank

(* what the chip is told: the addresses, or to ask for them *)
Wanted(addresses) == IF StaticSet(addresses) THEN addresses ELSE NoStatic

Begin(name, pages) ==
  /\ Idle /\ commands < MaxCommands
  /\ commands' = commands + 1
  /\ command' = name /\ todo' = pages
  /\ UNCHANGED <<memory, radio, faults>>

(* cmd_ssid, cmd_pass, cmd_auth, cmd_url, cmd_port *)
SetText(field) ==
  \E value \in TextValues(field) : Begin(field, PagesToWrite(field, value))

(* cmd_static_ip, _mask, _gateway, _dns *)
SetAddress(field) ==
  \E value \in Address : Begin("STATIC", PagesToWrite(field, value))

(* cmd_static_ip, OFF: all of them are cleared, one after the other *)
StaticOff ==
  Begin("OFF", [i \in DOMAIN Addresses |-> PagesToWrite(Addresses[i], Blank)[1]])

(* cmd_temp_offset, cmd_humidity_offset: the first one is the factory's *)
MutantSetOffset(offset) ==
  Begin("OFFSET",
    (IF ram["FACTORY"][1] = 0
       THEN PagesToWrite("FACTORY", <<offset, TRUE>>) ELSE <<>>)
    \o PagesToWrite("OFFSET", <<offset>>))
SetOffset(offset) ==
  Begin("OFFSET",
    (IF ram["FACTORY"] = <<0, FALSE>>
       THEN PagesToWrite("FACTORY", <<offset, TRUE>>) ELSE <<>>)
    \o PagesToWrite("OFFSET", <<offset>>))

(* cmd_offset_factory *)
FactoryReset == Begin("OFFSET", PagesToWrite("OFFSET", <<ram["FACTORY"][1]>>))

(* the rest of these commands: most leave the network, an address only     *)
(* when all of them are set *)
MutantLeaves == command \in {"SSID", "PASS", "AUTH", "OFF"}
Leaves ==
  \/ command \in {"SSID", "PASS", "AUTH", "OFF"}
  \/ command = "STATIC" /\ StaticSet(StaticOf(ram))

EndCommand ==
  /\ ~Idle /\ todo = <<>>
  /\ command' = "NONE"
  /\ link' = IF Leaves /\ link = "CONNECTED" THEN "DISCONNECTED" ELSE link
  /\ UNCHANGED <<memory, todo, commands, cached, chip, joined, misled, faults>>

-------------------------------------------------------------------------------
(***************************************************************************)
(* wifi_connect, and what the WiFi machine makes of it.  After a failure   *)
(* it resets the chip, which then runs with the settings it keeps.         *)
(***************************************************************************)
Changed == cached # StaticOf(ram)

MayConnect ==
  /\ Idle /\ link # "CONNECTED" /\ ("SSID" \in Texts => ram["SSID"] # Blank)
  /\ UNCHANGED <<memory, running>>

(* sl_NetCfgSet fails after the copies were made *)
ConfigFails ==
  /\ MayConnect /\ Changed /\ faults < MaxFaults
  /\ cached' = StaticOf(ram)
  /\ misled' = (chip # Wanted(StaticOf(ram)))
  /\ link' = "DISCONNECTED" /\ faults' = faults + 1
  /\ UNCHANGED <<chip, joined>>

(* The chip has its settings; a later step fails, or the link comes up     *)
(* and, with static addresses, the IP address is the one asked for.        *)
Configured ==
  /\ cached' = StaticOf(ram)
  /\ chip' = IF Changed THEN Wanted(StaticOf(ram)) ELSE chip
  /\ misled' = (misled /\ ~Changed)

ConnectFails ==
  /\ MayConnect /\ faults < MaxFaults
  /\ Configured
  /\ link' = "DISCONNECTED" /\ faults' = faults + 1
  /\ UNCHANGED joined

(* verify_static_ip, which looks at the IP address only *)
MutantVerified == TRUE
Verified == StaticSet(StaticOf(ram)) => chip'["IP"] = ram["IP"]

Connect ==
  /\ MayConnect
  /\ Configured
  /\ link' = IF Verified THEN "CONNECTED" ELSE "DISCONNECTED"
  /\ joined' = IF "SSID" \in Texts /\ Verified THEN ram["SSID"] ELSE joined
  /\ UNCHANGED faults

(* the operation stop, between two exchanges *)
StopRadio ==
  /\ Idle /\ link = "CONNECTED"
  /\ link' = "STOPPED"
  /\ UNCHANGED <<memory, running, cached, chip, joined, misled, faults>>

-------------------------------------------------------------------------------
(* A reset, by the watchdog or a loss of power: a page that was being      *)
(* programmed holds the old contents, the new ones, or none.               *)
Reset ==
  /\ faults < MaxFaults /\ faults' = faults + 1
  /\ \E page \in IF programming = NoPage THEN {NoPage.old}
                 ELSE {programming.old, eeprom[programming.slot], EmptyPage} :
       eeprom' = IF programming = NoPage THEN eeprom
                 ELSE [eeprom EXCEPT ![programming.slot] = page]
  /\ programming' = NoPage
  /\ ram' = [field \in Fields |-> Loaded(eeprom', field)]
  /\ command' = "NONE" /\ todo' = <<>> /\ before' = ram'
  /\ cached' = NoStatic /\ link' = "STOPPED"
  /\ misled' = (chip # NoStatic)
  /\ UNCHANGED <<chip, joined, commands>>

Init ==
  /\ ram = [field \in Fields |-> Default(field)]
  /\ eeprom = [slot \in 1..Slots |-> EmptyPage] /\ programming = NoPage
  /\ command = "NONE" /\ todo = <<>> /\ before = ram
  /\ cached = NoStatic /\ chip = NoStatic /\ link = "STOPPED" /\ joined = Blank
  /\ misled = FALSE /\ commands = 0 /\ faults = 0

Next ==
  \/ \E field \in Texts : SetText(field)
  \/ \E field \in Static : SetAddress(field)
  \/ StaticOff \/ FactoryReset
  \/ \E offset \in Offsets : SetOffset(offset)
  \/ Programmed \/ WritePage \/ EndCommand
  \/ ConfigFails \/ ConnectFails \/ Connect \/ StopRadio
  \/ Reset

Spec == Init /\ [][Next]_vars

-------------------------------------------------------------------------------
(***************************************************************************)
(* Properties.                                                             *)
(***************************************************************************)
(* Types, and what the scan of the pages relies on: there are never two    *)
(* pages of a type, and always one for a type that has none yet.           *)
UniquePages ==
  \A a, b \in 1..Slots :
    eeprom[a].type = eeprom[b].type /\ eeprom[a].type # "EMPTY" => a = b

Room == \A type \in PageTypes : SlotsWith(type) \cup SlotsWith("EMPTY") # {}

ParametersTypeOK ==
  /\ \A slot \in 1..Slots : eeprom[slot].type \in PageTypes \cup {"EMPTY"}
  /\ programming.slot \in 0..Slots
  /\ link \in {"STOPPED", "DISCONNECTED", "CONNECTED"} /\ misled \in BOOLEAN
  /\ DOMAIN ram = Fields /\ DOMAIN cached = Static /\ DOMAIN chip = Static
  /\ UniquePages /\ Room

(* A parameter that no command is changing is what a start would load: a   *)
(* shorter value leaves nothing of a longer one behind, and no parameter   *)
(* is lost to another, whatever resets have made of the pages before.      *)
Changing == {todo[i].field : i \in DOMAIN todo}
ReadBack == \A field \in Fields \ Changing : Loaded(eeprom, field) = ram[field]

(* A reset leaves every parameter as it was, but the one whose page is     *)
(* being programmed: that one becomes what it was before or its default,   *)
(* never anything else.  (SSID and PASS have more pages, and may become a  *)
(* mixture until the last of them is programmed.)                          *)
Unprogrammed(field) ==
  /\ programming # NoPage
  /\ \E k \in DOMAIN PagesOf(field) : eeprom[programming.slot].type = PagesOf(field)[k]

NoMixture ==
  [][Reset => \A field \in Fields :
       \/ ram'[field] = ram[field]
       \/ Len(PagesOf(field)) = 1 /\ Unprogrammed(field)
            /\ ram'[field] \in {before[field], Default(field)}
       \/ Len(PagesOf(field)) > 1 /\ (field \in Changing \/ Unprogrammed(field))]_vars

(* The factory's offset is the first there was and stays so, unless its    *)
(* page was still being programmed when the device was reset.              *)
FactoryKept ==
  [][ram["FACTORY"][2] /\ ram'["FACTORY"] # ram["FACTORY"] =>
       programming # NoPage /\ eeprom[programming.slot].type = "FACTORY"]_vars

(* While connected, and no command running, the device is in the network   *)
(* that is configured and the chip has the addresses that are configured,  *)
(* unless the driver has been misled about them.                           *)
ConnectedAsConfigured ==
  link = "CONNECTED" /\ Idle =>
    /\ "SSID" \in Texts => joined = ram["SSID"]
    /\ chip = Wanted(StaticOf(ram)) \/ misled

(* A static IP address is the one asked for even then.                     *)
StaticIpVerified ==
  link = "CONNECTED" /\ Idle /\ StaticSet(StaticOf(ram)) => chip["IP"] = ram["IP"]
===============================================================================
