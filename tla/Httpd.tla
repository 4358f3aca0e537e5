------------------------------- MODULE Httpd -------------------------------
(***************************************************************************)
(* The program httpd: main of cmd/httpd.cpp, the settings it reads         *)
(* (http/server/settings.h), the certificate it loads                      *)
(* (common/certificate.h), and the service it starts, of which only the    *)
(* beginning and the end is told here: Service has what is between.        *)
(*                                                                         *)
(* A settings file is a tree of texts.  Here it is a pair of functions,    *)
(* one for the texts taken as they are and one for those read as numbers.  *)
(***************************************************************************)
EXTENDS Integers, Sequences

CONSTANTS
  UShort, Size,  \* how many values unsigned short and size_t have
  IntMax,        \* the largest int
  Words,         \* the texts there may be in a settings file
  Lower,         \* boost::algorithm::to_lower, as a function of Words
  Addresses,     \* the words make_address accepts
  Files,         \* bound: the settings files there may be, see IsSettingsFile
  Disks          \* bound: what may be in the files for TLS, see Disk

Levels == {"trace", "info", "debug", "warning", "error", "fatal"}
WordKeys == {"address", "root", "level", "certificate", "key", "dh", "version"}
NumberKeys == {"port", "threads", "header", "get", "put", "post"}

\* What a key has in the file: one text, or none.  A text that is no number is
\* no better than none where a number is asked for.
Maybe(S) == {<<>>} \cup {<<x>> : x \in S}
IsSettingsFile(f) ==
  /\ f.words \in [WordKeys -> Maybe(Words)]
  /\ f.numbers \in [NumberKeys -> Seq(Int)]
  /\ \A k \in NumberKeys : Len(f.numbers[k]) <= 1

ASSUME WidthAssumption ==
  /\ UShort \in Nat /\ 8080 < UShort
  /\ Size \in Nat /\ 300 < Size
  /\ IntMax \in Nat /\ 5 <= IntMax /\ UShort <= IntMax /\ IntMax < Size

ASSUME WordsAssumption ==
  /\ {"127.0.0.1", "html", "info", "cfg/dumb.cert", "cfg/dumb.key",
      "cfg/dumb.dh", "alpha"} \subseteq Words
  /\ Lower \in [Words -> Words]
  /\ Lower["info"] = "info"
  /\ \A w \in Words : Lower[Lower[w]] = Lower[w]

\* The files for TLS that can be opened, and of those the ones whose content is
\* taken: a certificate chain, its key, not encrypted, and parameters.
Disk == {d \in [readable : SUBSET Words, good : SUBSET Words] :
           d.good \subseteq d.readable}

ASSUME BoundsAssumption ==
  /\ \A f \in Files : IsSettingsFile(f)
  /\ \A d \in Disks : d \in Disk

-----------------------------------------------------------------------------
(* settings *)

Settings ==
  [words : [WordKeys -> Words],
   port : 0 .. UShort - 1,
   threads : -IntMax - 1 .. IntMax,
   header : 0 .. Size - 1, get : 0 .. Size - 1,
   put : 0 .. Size - 1, post : 0 .. Size - 1]

\* ptree::get of a text, with a default.
Word(text, default) == IF text = <<>> THEN default ELSE text[1]

\* Does operator>> read the number n into an unsigned type?  A minus sign is
\* accepted: it is the magnitude that must fit.
FitsUnsigned(n, values) == -values < n /\ n < values

\* ptree::get<T> for an unsigned type, and for int.
Unsigned(text, values, default) ==
  IF text # <<>> /\ FitsUnsigned(text[1], values) THEN text[1] % values
  ELSE default

Signed(text, default) ==
  IF text # <<>> /\ -IntMax - 1 <= text[1] /\ text[1] <= IntMax THEN text[1]
  ELSE default

DefaultWords ==
  [address |-> "127.0.0.1", root |-> "html", level |-> "info",
   certificate |-> "cfg/dumb.cert", key |-> "cfg/dumb.key",
   dh |-> "cfg/dumb.dh", version |-> "alpha"]

\* settings::load.  The time for the header is read as an int, the type of its
\* default, and stored in a size_t.
Load(f) ==
  LET word(k) == Word(f.words[k], DefaultWords[k])
  IN  [words |-> [k \in WordKeys |->
                    IF k = "level" THEN Lower[word(k)] ELSE word(k)],
       port |-> Unsigned(f.numbers.port, UShort, 8080),
       threads |-> Signed(f.numbers.threads, 1),
       header |-> Signed(f.numbers.header, 5) % Size,
       get |-> Unsigned(f.numbers.get, Size, 300),
       put |-> Unsigned(f.numbers.put, Size, 300),
       post |-> Unsigned(f.numbers.post, Size, 300)]

\* Mutant: a setting is forgotten.
SaveForgetsPort(s) ==
  [words |-> [k \in WordKeys |-> <<s.words[k]>>],
   numbers |-> [k \in NumberKeys |-> IF k = "port" THEN <<>> ELSE <<s[k]>>]]

\* The conversion of settings to a tree.
Save(s) ==
  [words |-> [k \in WordKeys |-> <<s.words[k]>>],
   numbers |-> [k \in NumberKeys |-> <<s[k]>>]]

NoFile == [words |-> [k \in WordKeys |-> <<>>],
           numbers |-> [k \in NumberKeys |-> <<>>]]

-----------------------------------------------------------------------------
(* main *)

\* The files for TLS, in the order they are opened and then used.
Order == <<"certificate", "key", "dh">>

VARIABLES
  given,      \* the settings file: <<>> if there is none that can be read; rigid
  disk,       \* what is in the files for TLS that settings can name; rigid
  at,         \* the next statement of main, or how it ended
  settings,   \* settings::globals()
  filter,     \* the least severity that is logged
  opened,     \* how many of the files certificate::load has opened
  context,    \* the ssl context: the names of the files loaded into it
  serving     \* what service::start listens to and runs with, once it does

hvars == <<given, disk, at, settings, filter, opened, context, serving>>

Places == {"arguments", "read_json", "globals", "filter", "load", "open",
           "use", "start", "serving", "success", "failure", "aborted"}

HInit ==
  /\ given \in Maybe(Files)
  /\ disk \in Disks
  /\ at = "arguments"
  /\ settings = Load(NoFile)
  /\ filter = "none"
  /\ opened = 0
  /\ context = <<>>
  /\ serving = <<>>

Goto(from, to) == at = from /\ at' = to

\* main wants one argument.
Arguments ==
  /\ Goto("arguments", "read_json") \/ Goto("arguments", "failure")
  /\ UNCHANGED <<given, disk, settings, filter, opened, context, serving>>

\* An exception that leaves main aborts the program.
ReadJson ==
  /\ Goto("read_json", IF given = <<>> THEN "aborted" ELSE "globals")
  /\ UNCHANGED <<given, disk, settings, filter, opened, context, serving>>

\* The first use of globals() makes the settings, from an empty tree.
Globals ==
  /\ Goto("globals", "filter")
  /\ settings' = Load(NoFile)
  /\ UNCHANGED <<given, disk, filter, opened, context, serving>>

\* set_log_filter, called before the file is loaded; its result is not used.
SetLogFilter ==
  /\ Goto("filter", "load")
  /\ filter' = IF settings.words["level"] \in Levels THEN settings.words["level"]
               ELSE filter
  /\ UNCHANGED <<given, disk, settings, opened, context, serving>>

LoadSettings ==
  /\ Goto("load", "open")
  /\ settings' = Load(given[1])
  /\ UNCHANGED <<given, disk, filter, opened, context, serving>>

\* Mutant: the default files are opened.
NameOfDefault(n) == DefaultWords[Order[n]]

\* The name settings give the nth of the files.
NameOf(n) == settings.words[Order[n]]

\* certificate::load of paths: all three are opened before any is used.
OpenFile ==
  /\ at = "open"
  /\ IF NameOf(opened + 1) \in disk.readable
       THEN /\ opened' = opened + 1
            /\ at' = IF opened' = Len(Order) THEN "use" ELSE at
       ELSE at' = "aborted" /\ UNCHANGED opened
  /\ UNCHANGED <<given, disk, settings, filter, context, serving>>

\* certificate::load of streams: the context takes one after the other.
UseFile ==
  LET n == Len(context) + 1
  IN  /\ at = "use"
      /\ IF NameOf(n) \in disk.good
           THEN /\ context' = Append(context, NameOf(n))
                /\ at' = IF n = Len(Order) THEN "start" ELSE at
           ELSE at' = "aborted" /\ UNCHANGED context
      /\ UNCHANGED <<given, disk, settings, filter, opened, serving>>

\* Mutant: the number of threads is taken as it is.
AsManyAsSaid(n) == n

AtLeastOne(n) == IF n > 1 THEN n ELSE 1

\* service::start, up to the call of io_context::run; make_address may throw.
Start ==
  /\ IF settings.words["address"] \in Addresses
       THEN /\ Goto("start", "serving")
            /\ serving' = <<[address |-> settings.words["address"],
                             port |-> settings.port,
                             root |-> settings.words["root"],
                             threads |-> AtLeastOne(settings.threads)]>>
       ELSE Goto("start", "aborted") /\ UNCHANGED serving
  /\ UNCHANGED <<given, disk, settings, filter, opened, context>>

\* A signal ends the service, and its result the program.
Finish ==
  /\ Goto("serving", "success")
  /\ UNCHANGED <<given, disk, settings, filter, opened, context, serving>>

Ended == at \in {"success", "failure", "aborted"} /\ UNCHANGED hvars

HNext ==
  \/ Arguments \/ ReadJson \/ Globals \/ SetLogFilter \/ LoadSettings
  \/ OpenFile \/ UseFile \/ Start \/ Finish \/ Ended

HSpec == HInit /\ [][HNext]_hvars

-----------------------------------------------------------------------------
(* Properties *)

HTypeOK ==
  /\ given = <<>> \/ given[1] \in Files
  /\ disk \in Disks
  /\ at \in Places
  /\ settings \in Settings
  /\ filter \in Levels \cup {"none"}
  /\ opened \in 0 .. Len(Order)
  /\ context \in Seq(Words)
  /\ serving \in Seq([address : Addresses, port : 0 .. UShort - 1,
                      root : Words, threads : 1 .. IntMax])

\* What a file asks of one key: its text, or the default if it has none.
Asked(k) == IF given[1].words[k] = <<>> THEN DefaultWords[k]
            ELSE given[1].words[k][1]

\* It gives a number the key can have.
Given(k, range) == /\ given[1].numbers[k] # <<>>
                   /\ given[1].numbers[k][1] \in range

\* A program that serves does what its settings file asks: the address, the
\* root and the files for TLS are those of the file, a port the file gives is
\* the one listened to unless there is no such port, and there are as many
\* threads as it says, but one at least.  The files for TLS were all
\* good: there is no serving without, or with a part of, a certificate
\* (httpd.cpp 57-66, settings.h 35-50, certificate.h 30-96, service.hpp 35-47).
ServesAsAsked ==
  serving # <<>> =>
    /\ serving[1].address = Asked("address")
    /\ serving[1].root = Asked("root")
    /\ context = <<Asked("certificate"), Asked("key"), Asked("dh")>>
    /\ \A n \in DOMAIN context : context[n] \in disk.good
    /\ Given("port", 0 .. UShort - 1) =>
         serving[1].port = given[1].numbers.port[1]
    /\ Given("threads", 1 .. IntMax) =>
         serving[1].threads = given[1].numbers.threads[1]

\* Settings that are converted to a tree and loaded from it are the same again,
\* but for a negative time for the header: read as an int, it became a size_t
\* that is no int (settings.h 35-68).
SavedSettingsLoad ==
  Load(Save(settings)) =
    [settings EXCEPT !.header = IF @ <= IntMax THEN @ ELSE 5]

\* The inductive invariant behind the two: what has happened by which
\* statement.
Unread == {"arguments", "read_json", "failure"}
Unloaded == Unread \cup {"globals", "filter", "load"}
Ready == {"start", "serving", "success"}

HInv ==
  /\ HTypeOK
  /\ at \in Unloaded => opened = 0
  /\ at \notin Unread => given # <<>> \/ at = "aborted"
  /\ at \notin Unloaded \cup {"aborted"} \/ opened > 0 =>
       given # <<>> /\ settings = Load(given[1])
  /\ settings = Load(NoFile) \/ (given # <<>> /\ settings = Load(given[1]))
  /\ at \in Ready \cup {"use"} \/ context # <<>> => opened = Len(Order)
  /\ at = "open" => opened < Len(Order)
  /\ Len(context) <= Len(Order)
  /\ at = "use" => Len(context) < Len(Order)
  /\ at \in Ready => Len(context) = Len(Order)
  /\ \A n \in 1 .. opened : NameOf(n) \in disk.readable
  /\ \A n \in DOMAIN context : context[n] = NameOf(n) /\ NameOf(n) \in disk.good
  /\ serving # <<>> =>
       /\ at \in {"serving", "success"}
       /\ serving[1] = [address |-> settings.words["address"],
                        port |-> settings.port,
                        root |-> settings.words["root"],
                        threads |-> AtLeastOne(settings.threads)]

=============================================================================
