------------------------------ MODULE ListConfig ------------------------------
(***************************************************************************)
(* The configuration of lists: one KV record "config:lists" that three     *)
(* tools read whole, change and write whole                                *)
(* (src/core/mcp/register-tools.ts:645-742, 2847-3075, src/core/config/).  *)
(*                                                                         *)
(* A list is classified by the pin it has (overrides), else by the first   *)
(* pattern its display name matches; list_lists pins what a pattern        *)
(* classifies.  A name stands for all display names that are equal but for *)
(* emoji and case; a pattern is the set of names it matches.  The tools    *)
(* take effect in the order read, write; other calls may come between.     *)
(***************************************************************************)
EXTENDS Naturals, Sequences, FiniteSets, FiniteSetsExt, SequencesExt

CONSTANTS
    Lists,        \* lists in Graph, numbered in the order of the roster
    Names,        \* display names
    Classes,      \* todo, reference, excluded
    PatternLists, \* values of "patterns": sequences of [names, type]
    Aliases,      \* handles
    Clients,      \* calls at the same time
    None,         \* undefined, and the class "unclassified"
    MaxRenames,   \* bound: renames in Graph
    MaxCalls,     \* bound: calls of a tool
    MaxFaults     \* bound: KV writes and index reads that fail

VARIABLES
    names,  \* Graph: each list's display name
    roster, \* lists table: the same, None for a list without a row
    kv,     \* config:lists
    calls,  \* each client's call, or its answer; raced (not in the code): another
            \* call has written the config since this one read it
    told    \* what list_lists last answered, who wrote since, bounds used up

vars == <<names, roster, kv, calls, told>>

Config == [patterns : PatternLists, aliases : [Aliases -> Lists \cup {None}],
           overrides : [Lists -> Classes \cup {None}],
           no_sync : SUBSET Lists, sync_flagged_emails : BOOLEAN]

\* loadListsConfig() of an absent key.
Default == [patterns |-> <<>>, aliases |-> [a \in Aliases |-> None],
            overrides |-> [l \in Lists |-> None],
            no_sync |-> {}, sync_flagged_emails |-> FALSE]

SeenNames == [Lists -> Names \cup {None}]
Tools   == {"list_lists", "set_list_config", "set_list_alias"}
Answers == {"ok", "list_index_cold", "list_not_found"}
NoCall  == [pc |-> "idle", tool |-> None, seen |-> [l \in Lists |-> None],
            cfg |-> Default, changes |-> {}, raced |-> FALSE]

TypeOK ==
    /\ names \in [Lists -> Names] /\ roster \in SeenNames
    /\ kv \in Config
    /\ calls \in [Clients -> [pc : {"idle", "loading", "storing"} \cup Answers,
                              tool : Tools \cup {None}, seen : SeenNames,
                              cfg : Config, changes : SUBSET DOMAIN Default,
                              raced : BOOLEAN]]
    /\ told \in [class : [Lists -> Classes \cup {None}], edited : Tools \cup {None},
                 renames : 0..MaxRenames, calls : 0..MaxCalls,
                 faults : 0..MaxFaults]

Init ==
    /\ names \in [Lists -> Names]
    /\ roster \in {names, [l \in Lists |-> None]}
    /\ kv = Default
    /\ calls = [c \in Clients |-> NoCall]
    /\ told = [class |-> [l \in Lists |-> None], edited |-> None, renames |-> 0,
               calls |-> 0, faults |-> 0]

-----------------------------------------------------------------------------
(* Pure functions.                                                          *)

\* The class that patterns give a name: the first that matches.
ByPattern(name, patterns) ==
    LET hits == {i \in DOMAIN patterns : name \in patterns[i].names}
    IN  IF hits = {} THEN None ELSE patterns[Min(hits)].type

\* classifyList(): a pin wins.
classifyList(name, cfg, l) ==
    IF cfg.overrides[l] # None THEN cfg.overrides[l]
    ELSE ByPattern(name, cfg.patterns)

\* Mutant of pinClassifications: what the name says wins over a pin.
pinAnew(seen, cfg) ==
    [l \in Lists |->
        IF seen[l] = None \/ ByPattern(seen[l], cfg.patterns) = None
        THEN cfg.overrides[l] ELSE ByPattern(seen[l], cfg.patterns)]

\* pinClassifications(): lists without a pin get one from their name.
pinClassifications(seen, cfg) ==
    [l \in Lists |-> IF seen[l] = None THEN cfg.overrides[l]
                     ELSE classifyList(seen[l], cfg, l)]

\* resolveListId(): an alias, a display name of the roster (the first such
\* list), or the id itself.
resolveListId(input, cfg, seen) ==
    IF input \in Aliases /\ cfg.aliases[input] # None THEN cfg.aliases[input]
    ELSE LET named == {l \in Lists : input \in Names /\ seen[l] = input}
         IN  IF named # {} THEN Min(named) ELSE input

-----------------------------------------------------------------------------
(* Graph and the roster.                                                    *)

Count(b) == [told EXCEPT ![b] = @ + 1]

\* A client renames a list.
Rename(l, n) ==
    /\ told.renames < MaxRenames /\ n # names[l]
    /\ names' = [names EXCEPT ![l] = n]
    /\ told' = Count("renames")
    /\ UNCHANGED <<roster, kv, calls>>

\* A sync cycle brings the lists table up to date.
RefreshRoster ==
    /\ roster # names
    /\ roster' = names
    /\ UNCHANGED <<names, kv, calls, told>>

\* getRoster(): the lists table, or Graph when that is empty or cannot be read; a
\* failing Graph is an empty roster.
Rosters ==
    {names, [l \in Lists |-> None]}
        \cup IF \E l \in Lists : roster[l] # None THEN {roster} ELSE {}

-----------------------------------------------------------------------------
(* The tools.                                                               *)

Idle(c) == calls[c].pc \in Answers \cup {"idle"}

Put(c, call) == calls' = [calls EXCEPT ![c] = call]

\* The whole record is written; a call that has read the old one still writes that.
Store(c) ==
    /\ kv' = calls[c].cfg
    /\ calls' = [d \in Clients |->
                    IF d = c THEN [calls[d] EXCEPT !.pc = "ok"]
                    ELSE IF calls[d].pc = "storing" THEN [calls[d] EXCEPT !.raced = TRUE]
                    ELSE calls[d]]

\* list_lists reads the roster.
BeginList(c) ==
    /\ Idle(c) /\ told.calls < MaxCalls
    /\ \E seen \in Rosters :
          Put(c, [NoCall EXCEPT !.pc = "loading", !.tool = "list_lists", !.seen = seen])
    /\ told' = Count("calls")
    /\ UNCHANGED <<names, roster, kv>>

\* What list_lists answers: each list's class if any is classified.
Classified(seen, cfg) ==
    [l \in Lists |-> IF seen[l] = None THEN told.class[l]
                     ELSE classifyList(seen[l], cfg, l)]

\* An answer that lists nothing leaves open what was edited.
Unedited(seen) == IF \A l \in Lists : seen[l] = None THEN told.edited ELSE None

\* list_lists reads the config: new pins are to be stored, otherwise it
\* answers.
LoadForList(c) ==
    /\ calls[c].pc = "loading" /\ calls[c].tool = "list_lists"
    /\ LET seen == calls[c].seen
           cfg  == [kv EXCEPT !.overrides = pinClassifications(seen, kv)]
       IN  IF cfg = kv
           THEN /\ Put(c, [calls[c] EXCEPT !.pc = "ok"])
                /\ told' = [told EXCEPT !.class = Classified(seen, kv),
                                         !.edited = Unedited(seen)]
           ELSE /\ Put(c, [calls[c] EXCEPT !.pc = "storing", !.cfg = cfg])
                /\ UNCHANGED told
    /\ UNCHANGED <<names, roster, kv>>

\* It stores the whole config it read, with the pins, and answers; a write
\* that fails is logged.  Who wrote over another call's write counts as a writer.
StorePins(c) ==
    /\ calls[c].pc = "storing" /\ calls[c].tool = "list_lists"
    /\ LET class == Classified(calls[c].seen, calls[c].cfg)
       IN  \/ /\ Store(c)
              /\ told' = [told EXCEPT !.class = class,
                                       !.edited = IF calls[c].raced THEN "list_lists"
                                                  ELSE Unedited(calls[c].seen)]
           \/ /\ told.faults < MaxFaults
              /\ told' = [Count("faults") EXCEPT !.class = class, !.edited = "list_lists"]
              /\ Put(c, [calls[c] EXCEPT !.pc = "ok"])
              /\ UNCHANGED kv
    /\ UNCHANGED <<names, roster>>

\* What set_list_config makes of the config: the fields it is given are
\* replaced, the others stay.
WithGiven(given, p, o, s) ==
    LET new == [Default EXCEPT !.patterns = p, !.overrides = o, !.no_sync = s,
                               !.sync_flagged_emails = ~kv.sync_flagged_emails]
    IN  [f \in DOMAIN Default |-> IF f \in given THEN new[f] ELSE kv[f]]

\* set_list_config is called with valid patterns and loads the config.
LoadForConfig(c) ==
    /\ Idle(c) /\ told.calls < MaxCalls
    /\ \E p \in PatternLists, o \in [Lists -> Classes \cup {None}], s \in SUBSET Lists,
          given \in {{"patterns"}, {"overrides"}, {"no_sync"}, {"sync_flagged_emails"}} :
        Put(c, [NoCall EXCEPT !.pc = "storing", !.tool = "set_list_config",
                              !.changes = given, !.cfg = WithGiven(given, p, o, s)])
    /\ told' = Count("calls")
    /\ UNCHANGED <<names, roster, kv>>

\* It stores all of it (and wakes the sync loop: SyncCycle).
StoreConfig(c) ==
    /\ calls[c].pc = "storing" /\ calls[c].tool # "list_lists"
    /\ Store(c)
    /\ told' = [told EXCEPT !.edited = IF @ = "set_list_config" THEN @ ELSE calls[c].tool]
    /\ UNCHANGED <<names, roster>>

\* What set_list_alias makes of the config: it rebuilds the record field by
\* field and names neither "overrides" nor their old value.
WithAlias(a, l) == [kv EXCEPT !.aliases[a] = l, !.overrides = Default.overrides]

\* set_list_alias finds its target by id or name in the roster, then loads.
LoadForAlias(c, a, input) ==
    /\ Idle(c) /\ told.calls < MaxCalls
    /\ LET l == resolveListId(input, Default, roster)
       IN  Put(c, IF \A m \in Lists : roster[m] = None
                  THEN [NoCall EXCEPT !.pc = "list_index_cold"]
                  ELSE IF l \notin Lists \/ roster[l] = None
                  THEN [NoCall EXCEPT !.pc = "list_not_found"]
                  ELSE [NoCall EXCEPT !.pc = "storing", !.tool = "set_list_alias",
                                      !.changes = {"aliases"}, !.cfg = WithAlias(a, l)])
    /\ told' = Count("calls")
    /\ UNCHANGED <<names, roster, kv>>

Next == \/ \E l \in Lists, n \in Names : Rename(l, n)
        \/ RefreshRoster
        \/ \E c \in Clients : BeginList(c)
        \/ \E c \in Clients : LoadForList(c)
        \/ \E c \in Clients : StorePins(c)
        \/ \E c \in Clients : LoadForConfig(c)
        \/ \E c \in Clients : StoreConfig(c)
        \/ \E c \in Clients, a \in Aliases, i \in Names \cup Lists : LoadForAlias(c, a, i)

Spec == Init /\ [][Next]_vars

-----------------------------------------------------------------------------
(* Properties.                                                              *)

\* What list_lists tells of a list it has classified changes only after another tool
\* wrote the config, a pin could not be stored, or was stored over another call's
\* write: a rename alone never does it.
KeepsClass ==
    \A l \in Lists : told.class[l] \notin {None, told'.class[l]} =>
        {told.edited, told'.edited} # {None}
RenameKeepsClass == [][KeepsClass]_vars

\* "Omitted fields are preserved" (set_list_config), "preserve no_sync /
\* sync_flagged_emails" (set_list_alias), "does not affect aliases": a field
\* changes only in a call that sets it, or when two calls overlap and the later
\* writes back what it read before the earlier wrote.
SetsOwnFields ==
    \A f \in DOMAIN Default \ {"overrides"} : kv'[f] # kv[f] =>
        \E c \in Clients : calls'[c].pc # calls[c].pc
                            /\ (f \in calls[c].changes \/ calls[c].raced)
OmittedStay == [][SetsOwnFields]_vars

\* "pinned so a rename can't silently change a list's class" (schemas.ts:105):
\* a class changes only after set_list_config, the tool that sets classes.
PinsSurvive ==
    [][\A l \in Lists : told.class[l] \notin {None, told'.class[l]} =>
          {told.edited, told'.edited} \cap {"set_list_config", "list_lists"} # {}]_vars
=============================================================================
