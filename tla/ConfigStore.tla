----------------------------- MODULE ConfigStore -----------------------------
(***************************************************************************)
(* core/storage/ConfigStore.ts over globalState: the store each window of   *)
(* VS Code keeps its templates, schedules, pipelines and audit trail in.    *)
(*                                                                          *)
(* Every window has a memento, a copy of the data it reads without waiting. *)
(* A write replaces the memento at once and is sent to VS Code's main       *)
(* process, which keeps it and sends it to every window, the one that made  *)
(* it included; the memento takes what it is sent, when it arrives.         *)
(* A window's messages keep their order; nothing orders two windows'.       *)
(***************************************************************************)
EXTENDS Naturals, Sequences

CONSTANTS
    Window,     \* the windows that ever open, each with a store of its own
    Key,        \* the keys callers ask for
    Category,   \* the sets of keys that make a category
    NoValue,    \* the value of a key that has no entry
    NoWriter,   \* the writer of data no store stamped
    MaxWrites   \* bound: writes of one store

ASSUME KeyAssumption == Category \subseteq SUBSET Key
ASSUME NoneAssumption == NoWriter \notin Window
ASSUME WritesAssumption == MaxWrites \in Nat

(* A value says who set it and at which of its writes, so no two are equal: *)
(* a set to the value a key has writes nothing, which is a stutter here.    *)
Value == (Window \X Nat) \cup {NoValue}

(* The data under globalState's one key: the entries, and REVISION_KEY's.   *)
Revision == [writer : Window \cup {NoWriter}, write : Nat]
Data == [entries : [Key -> Value], revision : Revision]

VARIABLES
    stored,     \* the data the main process keeps
    memento,    \* what getData() answers in each window
    toMain,     \* per window, the writes on their way to the main process
    toWindow,   \* per window, the data on its way to it
    writes,     \* this.writes of each store
    written,    \* this.written of each store
    open,       \* the windows that are open
    latest,     \* history: for each key, the value its last write gave it
    raced       \* history: a write was made before an earlier one was heard of

vars == <<stored, memento, toMain, toWindow, writes, written, open, latest, raced>>

Nothing == [entries |-> [k \in Key |-> NoValue],
            revision |-> [writer |-> NoWriter, write |-> 0]]

(* Mutants: what the memento holds is believed; the number of a write is    *)
(* compared, whoever made it; the store's own last write is preferred.      *)
Held(w) == memento[w]
OlderThanMine(w) ==
    IF writes[w] > 0 /\ memento[w].revision.write < writes[w]
    THEN written[w]
    ELSE memento[w]

MineFirst(w) == IF writes[w] > 0 THEN written[w] ELSE memento[w]

(* The data as a store reads it: its own last write, when the memento holds *)
(* the echo of an earlier one.                                              *)
current(w) ==
    IF writes[w] > 0 /\ memento[w].revision.writer = w
                     /\ memento[w].revision.write < writes[w]
    THEN written[w]
    ELSE memento[w]

Init ==
    /\ stored = Nothing
    /\ memento = [w \in Window |-> Nothing]
    /\ toMain = [w \in Window |-> <<>>]
    /\ toWindow = [w \in Window |-> <<>>]
    /\ writes = [w \in Window |-> 0]
    /\ written = [w \in Window |-> Nothing]
    /\ open = {}
    /\ latest = [k \in Key |-> NoValue]
    /\ raced = FALSE

-----------------------------------------------------------------------------
(* A window opens with what the main process keeps. *)
Open(w) ==
    /\ w \notin open /\ writes[w] = 0 /\ toWindow[w] = <<>>
    /\ memento' = [memento EXCEPT ![w] = stored]
    /\ open' = open \cup {w}
    /\ UNCHANGED <<stored, toMain, toWindow, writes, written, latest, raced>>

(* A write of another window is still on its way to this one's memento. *)
Unheard(w) ==
    \/ \E v \in Window \ {w} : toMain[v] # <<>>
    \/ \E i \in 1..Len(toWindow[w]) : toWindow[w][i].revision.writer # w

(* write(): stamp the entries, hand them to the memento, remember them. *)
write(w, entries) ==
    LET data == [entries |-> entries,
                 revision |-> [writer |-> w, write |-> writes[w] + 1]]
    IN  /\ w \in open /\ writes[w] < MaxWrites
        /\ writes' = [writes EXCEPT ![w] = @ + 1]
        /\ written' = [written EXCEPT ![w] = data]
        /\ memento' = [memento EXCEPT ![w] = data]
        /\ toMain' = [toMain EXCEPT ![w] = Append(@, data)]
        /\ raced' = (raced \/ Unheard(w))
        /\ UNCHANGED <<stored, toWindow, open>>

(* set(): one entry of the current data changes. *)
Set(w, k) ==
    /\ write(w, [current(w).entries EXCEPT ![k] = <<w, writes[w] + 1>>])
    /\ latest' = [latest EXCEPT ![k] = <<w, writes[w] + 1>>]

(* update() that removes keys: nothing is written when there is nothing to  *)
(* remove.                                                                  *)
Remove(w, keys) ==
    /\ \E k \in keys : current(w).entries[k] # NoValue
    /\ write(w, [k \in Key |-> IF k \in keys THEN NoValue ELSE current(w).entries[k]])
    /\ latest' = [k \in Key |-> IF k \in keys THEN NoValue ELSE latest[k]]

delete(w, k) == Remove(w, {k})
clearCategory(w, category) == Remove(w, category)

(* clearAll(): no entry is kept, and the write is made whatever was there. *)
clearAll(w) ==
    /\ write(w, Nothing.entries)
    /\ latest' = Nothing.entries

(* The main process keeps a write and sends it to every open window. *)
Keep(w) ==
    /\ toMain[w] # <<>>
    /\ stored' = Head(toMain[w])
    /\ toMain' = [toMain EXCEPT ![w] = Tail(@)]
    /\ toWindow' = [v \in Window |->
                      IF v \in open THEN Append(toWindow[v], Head(toMain[w]))
                                    ELSE toWindow[v]]
    /\ UNCHANGED <<memento, writes, written, open, latest, raced>>

(* The memento takes what it is sent. *)
Echo(w) ==
    /\ toWindow[w] # <<>>
    /\ memento' = [memento EXCEPT ![w] = Head(toWindow[w])]
    /\ toWindow' = [toWindow EXCEPT ![w] = Tail(@)]
    /\ UNCHANGED <<stored, toMain, writes, written, open, latest, raced>>

(* A window closes: the data on its way to it is dropped, its writes go on. *)
Close(w) ==
    /\ w \in open
    /\ open' = open \ {w}
    /\ toWindow' = [toWindow EXCEPT ![w] = <<>>]
    /\ UNCHANGED <<stored, memento, toMain, writes, written, latest, raced>>

Next ==
    \E w \in Window :
        \/ Open(w) \/ Close(w) \/ Keep(w) \/ Echo(w)
        \/ \E k \in Key : Set(w, k) \/ delete(w, k)
        \/ \E c \in Category : clearCategory(w, c)
        \/ clearAll(w)

Spec == Init /\ [][Next]_vars

-----------------------------------------------------------------------------
(* Types of the state. *)
TypeOK ==
    /\ stored \in Data
    /\ memento \in [Window -> Data]
    /\ toMain \in [Window -> Seq(Data)]
    /\ toWindow \in [Window -> Seq(Data)]
    /\ writes \in [Window -> Nat]
    /\ written \in [Window -> Data]
    /\ open \subseteq Window
    /\ latest \in [Key -> Value]
    /\ raced \in BOOLEAN

SoleWriter(w) == \A v \in Window \ {w} : writes[v] = 0

(* A window that alone writes reads its data as its last write left it,     *)
(* with every entry its writes gave a value, whatever echoes of earlier     *)
(* writes its memento takes meanwhile: the stamp tells them apart.          *)
SoleWriterKeepsAll ==
    \A w \in open : SoleWriter(w) => current(w).entries = latest

(* Once every message has arrived, every open window reads the data the     *)
(* main process keeps, which is what a window opened next would read.       *)
WindowsAgree ==
    /\ \A w \in Window : toMain[w] = <<>>
    /\ \A w \in open : toWindow[w] = <<>>
    => \A w \in open : current(w) = stored

(* "every write re-reads it and changes only the entries it names": as long *)
(* as no window wrote before it had heard of the others' writes, a window   *)
(* with no write on its way to it reads every key as it was last written,   *)
(* by whichever window. Two windows that write within that delay (`raced`)  *)
(* lose one of the writes for good, different keys though they name.        *)
KeptUnlessRaced ==
    ~raced => \A w \in open : Unheard(w) \/ current(w).entries = latest

=============================================================================
