------------------------------- MODULE Lookup -------------------------------
(***************************************************************************)
(* report_lookup.cpp: two threads pick the lists of the installed packages *)
(* one by one, and search them for a file (fileInPackages) or for a text   *)
(* (lookupInPackages).  A match is one message of LogMsg; the main thread  *)
(* ends with one of LogInfo.                                               *)
(***************************************************************************)
EXTENDS ConcurrentPeek, FileSystem, Log

CONSTANTS
  Lists,    \* VarAdmPkgNames(): the package lists, in readdir's order
  DotNew    \* pairs <<a, b>>: the name b is a with ".new" behind it

Threads == {"main", "other"}

\* A directory has each of its names once.
ASSUME LookupAssumption ==
  /\ Len(Lists) = Size /\ Loggers = Threads
  /\ \A i, j \in 1..Size : Lists[i] = Lists[j] => i = j

VARIABLES
  kind,      \* "", or what is done: "file", "text"
  what,      \* the path, or the text
  lookPc,    \* of both threads
  item,      \* the list a thread has picked
  hadMatch   \* whether a thread has had a match

searchVars == <<pos, kind, what, lookPc, item, hadMatch>>
lookVars == <<searchVars, logVars>>

LookHeader == 5

LookInit ==
  /\ PeekInit /\ LogInit
  /\ kind = "" /\ what = <<>>
  /\ lookPc = [t \in Threads |-> "pop"]
  /\ item = [t \in Threads |-> 0]
  /\ hadMatch = [t \in Threads |-> FALSE]

-----------------------------------------------------------------------------
(* One list.                                                               *)

Body(fs, list) ==
  IF list \in DOMAIN fs THEN SubSeq(fs[list].lines, LookHeader + 1, Len(fs[list].lines)) ELSE <<>>

\* file_name_match_in: the line ends in a slash and the name, or that and ".new".
FileNameMatch(line, search) ==
  /\ Len(line) > 1
  /\ LET base == Basename(search)
     IN Last(line) = base \/ <<base, Last(line)>> \in DotNew

\* path_is_same_or_incoming.
SameOrIncoming(line, search) ==
  LET dir == Dirname(line)
  IN dir = Dirname(search) \/ (Basename(dir) = "incoming" /\ Dirname(dir) = Dirname(search))

\* process(): the first line that matches is the only one.
Matches(fs, list, search) ==
  LET body == Body(fs, list)
      lines == Those(body, {l \in Range(body) : FileNameMatch(l, search)})
      match(line) == IF SameOrIncoming(line, search) THEN <<"absolute match">>
                     ELSE <<"filename found">>
  IN IF lines = <<>> THEN <<>> ELSE <<match(lines[1]), lines[1]>>

\* A text is a name of the line here, or the beginning of one.
Holds(line, text) == \E i \in DOMAIN line : text = <<line[i]>> \/ <<text[1], line[i]>> \in Starts

Collected(fs, list, text) ==
  LET body == Body(fs, list) IN Those(body, {l \in Range(body) : Holds(l, text)})

Found(fs, list) ==
  IF kind = "file" THEN Matches(fs, list, what) ELSE Collected(fs, list, what)

-----------------------------------------------------------------------------
(* The two threads.                                                        *)

Begin(k, w) ==
  /\ kind' = k /\ what' = w
  /\ UNCHANGED <<pos, lookPc, item, hadMatch, logVars>>

Pop(t) ==
  /\ lookPc[t] = "pop" /\ Silent(t)
  /\ Peek
  /\ item' = [item EXCEPT ![t] = Peeked]
  /\ lookPc' = [lookPc EXCEPT ![t] = IF AtEnd THEN "end" ELSE "read"]
  /\ UNCHANGED <<kind, what, hadMatch, logVars>>

\* A list that cannot be read is complained of, and passed over.
Read(t, fs) ==
  /\ lookPc[t] = "read"
  /\ LET list == Lists[item[t]]
     IN IF list \in DOMAIN fs
        THEN /\ Say(t, "msg", list, Found(fs, list))
             /\ hadMatch' = [hadMatch EXCEPT ![t] = @ \/ Found(fs, list) # <<>>]
        ELSE Say(t, "error", list, <<<<"can not read">>>>) /\ UNCHANGED hadMatch
  /\ lookPc' = [lookPc EXCEPT ![t] = "pop"]
  /\ UNCHANGED <<pos, kind, what, item, setup, out>>

Ended(t) == lookPc[t] \in {"end", "over"}

NothingFound == kind = "file" /\ \A t \in Threads : ~hadMatch[t]

LastWords(nothing) ==
  Say("main", "info", <<>>, IF nothing THEN <<<<"nothing found">>, <<>>>> ELSE <<<<>>>>)

\* Mutant: the result of the other thread is not waited for.
ConcludeAlone ==
  /\ lookPc["main"] = "end"
  /\ LastWords(kind = "file" /\ ~hadMatch["main"])
  /\ lookPc' = [lookPc EXCEPT !["main"] = "over"]
  /\ UNCHANGED <<pos, kind, what, item, hadMatch, setup, out>>

\* The main thread joins the other one, but for a file it has found itself: the
\* other one is then waited for when its future is destroyed, after the last words.
Conclude ==
  /\ lookPc["main"] = "end"
  /\ \/ lookPc["other"] = "end" /\ Silent("other")
     \/ kind = "file" /\ hadMatch["main"]
  /\ LastWords(NothingFound)
  /\ lookPc' = [lookPc EXCEPT !["main"] = "over"]
  /\ UNCHANGED <<pos, kind, what, item, hadMatch, setup, out>>

Looking(fs) ==
  /\ kind # ""
  /\ \/ \E t \in Threads : Pop(t) \/ Read(t, fs) \/ (Log(t) /\ UNCHANGED searchVars)
     \/ Conclude

LookupOver == lookPc["main"] = "over" /\ \A t \in Threads : Ended(t) /\ Silent(t)

-----------------------------------------------------------------------------
\* When a lookup is over (fileInPackages(), lookupInPackages()), each list has been
\* complained of, or all its matches have been written, once and in the list's order,
\* however the messages of the two threads are mixed; "nothing found" was said, unless
\* it is to be quiet, of a file of which there was nothing, and of no other.
Complete(fs) ==
  LookupOver =>
    /\ \A i \in 1..Size :
         \/ Written("error", Lists[i]) # <<>>
         \/ Lists[i] \in DOMAIN fs => Written("msg", Lists[i]) = Found(fs, Lists[i])
    /\ <<"nothing found">> \in Range(Written("info", <<>>)) <=>
         ~Quiet /\ kind = "file" /\ UnitsOf("msg") = <<>>
=============================================================================
