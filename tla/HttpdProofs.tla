---------------------------- MODULE HttpdProofs ----------------------------
(***************************************************************************)
(* Theorems about Httpd, for every settings file and whatever is in the    *)
(* files for TLS: the program serves as its settings file asks or not at   *)
(* all, and settings survive being saved.                                  *)
(***************************************************************************)
EXTENDS Httpd, TLAPS

-----------------------------------------------------------------------------
(* Reading numbers. *)

\* A number that an unsigned type has is read as it is.
LEMMA UnsignedExact ==
  ASSUME NEW values \in Nat \ {0}, NEW n \in 0 .. values - 1, NEW default
  PROVE  Unsigned(<<n>>, values, default) = n
<1>1. FitsUnsigned(n, values)
  BY DEF FitsUnsigned
<1>2. n % values = n
  OBVIOUS
<1> QED
  BY <1>1, <1>2 DEF Unsigned

\* Whatever is read fits the type.
LEMMA UnsignedType ==
  ASSUME NEW values \in Nat, NEW default \in 0 .. values - 1,
         NEW text \in Seq(Int)
  PROVE  Unsigned(text, values, default) \in 0 .. values - 1
<1>1. values > 0
  OBVIOUS
<1>2. CASE text # <<>> /\ FitsUnsigned(text[1], values)
  <2>1. text[1] \in Int
    BY <1>2
  <2>2. text[1] % values \in 0 .. values - 1
    BY <1>1, <2>1
  <2> QED
    BY <1>2, <2>2 DEF Unsigned
<1>3. CASE ~(text # <<>> /\ FitsUnsigned(text[1], values))
  BY <1>3 DEF Unsigned
<1> QED
  BY <1>2, <1>3

LEMMA SignedType ==
  ASSUME NEW default \in 0 .. IntMax, NEW text \in Seq(Int)
  PROVE  Signed(text, default) \in -IntMax - 1 .. IntMax
<1>1. IntMax \in Nat
  BY WidthAssumption
<1>2. text # <<>> => text[1] \in Int
  OBVIOUS
<1> QED
  BY <1>1, <1>2 DEF Signed

-----------------------------------------------------------------------------
(* Loading and saving settings. *)

LEMMA WordType ==
  ASSUME NEW text \in Maybe(Words), NEW default \in Words
  PROVE  Word(text, default) \in Words
BY DEF Maybe, Word

LEMMA DefaultWordsType == DefaultWords \in [WordKeys -> Words]
BY WordsAssumption DEF DefaultWords, WordKeys

\* An empty tree is a settings file.
LEMMA NoFileIsOne == IsSettingsFile(NoFile)
BY DEF NoFile, IsSettingsFile, Maybe, NumberKeys

\* Whatever is in the file, what is loaded fits, the level in lower case.
LEMMA LoadType ==
  ASSUME NEW f, IsSettingsFile(f)
  PROVE  /\ Load(f) \in Settings
         /\ Lower[Load(f).words["level"]] = Load(f).words["level"]
<1> DEFINE word(k) == Word(f.words[k], DefaultWords[k])
           words == [k \in WordKeys |->
                       IF k = "level" THEN Lower[word(k)] ELSE word(k)]
<1>1. \A k \in WordKeys : word(k) \in Words
  <2> SUFFICES ASSUME NEW k \in WordKeys
               PROVE  word(k) \in Words
    OBVIOUS
  <2>1. f.words[k] \in Maybe(Words) /\ DefaultWords[k] \in Words
    BY DefaultWordsType DEF IsSettingsFile
  <2> QED
    BY <2>1, WordType
<1>2. words \in [WordKeys -> Words]
  BY <1>1, WordsAssumption
<1>3. Lower[words["level"]] = words["level"]
  BY <1>1, WordsAssumption DEF WordKeys
<1>4. \A k \in NumberKeys : f.numbers[k] \in Seq(Int)
  BY DEF IsSettingsFile
<1>5. /\ f.numbers.port \in Seq(Int) /\ f.numbers.threads \in Seq(Int)
      /\ f.numbers.header \in Seq(Int) /\ f.numbers.get \in Seq(Int)
      /\ f.numbers.put \in Seq(Int) /\ f.numbers.post \in Seq(Int)
  BY <1>4 DEF NumberKeys
<1>6. Unsigned(f.numbers.port, UShort, 8080) \in 0 .. UShort - 1
  <2>1. UShort \in Nat /\ 8080 \in 0 .. UShort - 1
    BY WidthAssumption
  <2> QED
    BY <1>5, <2>1, UnsignedType
<1>7. /\ Unsigned(f.numbers.get, Size, 300) \in 0 .. Size - 1
      /\ Unsigned(f.numbers.put, Size, 300) \in 0 .. Size - 1
      /\ Unsigned(f.numbers.post, Size, 300) \in 0 .. Size - 1
  <2>1. Size \in Nat /\ 300 \in 0 .. Size - 1
    BY WidthAssumption
  <2> QED
    BY <1>5, <2>1, UnsignedType
<1>8. Signed(f.numbers.threads, 1) \in -IntMax - 1 .. IntMax
  BY <1>5, SignedType, WidthAssumption
<1>9. Signed(f.numbers.header, 5) % Size \in 0 .. Size - 1
  <2>1. Signed(f.numbers.header, 5) \in Int
    BY <1>5, SignedType, WidthAssumption
  <2> QED
    BY <2>1, WidthAssumption
<1>10. Load(f) = [words |-> words,
                  port |-> Unsigned(f.numbers.port, UShort, 8080),
                  threads |-> Signed(f.numbers.threads, 1),
                  header |-> Signed(f.numbers.header, 5) % Size,
                  get |-> Unsigned(f.numbers.get, Size, 300),
                  put |-> Unsigned(f.numbers.put, Size, 300),
                  post |-> Unsigned(f.numbers.post, Size, 300)]
  BY DEF Load
<1> HIDE DEF words
<1> QED
  BY <1>2, <1>3, <1>6, <1>7, <1>8, <1>9, <1>10 DEF Settings

\* Settings that are saved are loaded again.
LEMMA LoadOfSave ==
  ASSUME NEW s \in Settings, Lower[s.words["level"]] = s.words["level"]
  PROVE  Load(Save(s)) = [s EXCEPT !.header = IF @ <= IntMax THEN @ ELSE 5]
<1> DEFINE f == Save(s)
           words == [k \in WordKeys |->
                       IF k = "level" THEN Lower[Word(f.words[k], DefaultWords[k])]
                       ELSE Word(f.words[k], DefaultWords[k])]
<1>1. \A k \in WordKeys : Word(f.words[k], DefaultWords[k]) = s.words[k]
  BY DEF Save, Word
<1>2. words = s.words
  <2>1. s.words \in [WordKeys -> Words]
    BY DEF Settings
  <2>2. \A k \in WordKeys : words[k] = s.words[k]
    BY <1>1
  <2> QED
    BY <2>1, <2>2
<1>3. /\ f.numbers.port = <<s.port>> /\ f.numbers.threads = <<s.threads>>
      /\ f.numbers.header = <<s.header>> /\ f.numbers.get = <<s.get>>
      /\ f.numbers.put = <<s.put>> /\ f.numbers.post = <<s.post>>
  BY DEF Save, NumberKeys
<1>4. /\ s.port \in 0 .. UShort - 1 /\ s.threads \in -IntMax - 1 .. IntMax
      /\ s.header \in 0 .. Size - 1 /\ s.get \in 0 .. Size - 1
      /\ s.put \in 0 .. Size - 1 /\ s.post \in 0 .. Size - 1
  BY DEF Settings
<1>5. Unsigned(<<s.port>>, UShort, 8080) = s.port
  BY <1>4, UnsignedExact, WidthAssumption
<1>6. /\ Unsigned(<<s.get>>, Size, 300) = s.get
      /\ Unsigned(<<s.put>>, Size, 300) = s.put
      /\ Unsigned(<<s.post>>, Size, 300) = s.post
  BY <1>4, UnsignedExact, WidthAssumption
<1>7. Signed(<<s.threads>>, 1) = s.threads
  BY <1>4, WidthAssumption DEF Signed
<1>8. Signed(<<s.header>>, 5) % Size = IF s.header <= IntMax THEN s.header ELSE 5
  <2>1. Signed(<<s.header>>, 5) = IF s.header <= IntMax THEN s.header ELSE 5
    BY <1>4, WidthAssumption DEF Signed
  <2> QED
    BY <2>1, <1>4, WidthAssumption
<1>9. Load(f) = [words |-> words,
                 port |-> Unsigned(f.numbers.port, UShort, 8080),
                 threads |-> Signed(f.numbers.threads, 1),
                 header |-> Signed(f.numbers.header, 5) % Size,
                 get |-> Unsigned(f.numbers.get, Size, 300),
                 put |-> Unsigned(f.numbers.put, Size, 300),
                 post |-> Unsigned(f.numbers.post, Size, 300)]
  BY DEF Load
<1> HIDE DEF words, f
<1>10. Load(f) = [words |-> s.words, port |-> s.port, threads |-> s.threads,
                  header |-> IF s.header <= IntMax THEN s.header ELSE 5,
                  get |-> s.get, put |-> s.put, post |-> s.post]
  BY <1>2, <1>3, <1>5, <1>6, <1>7, <1>8, <1>9
<1>11. [s EXCEPT !.header = IF @ <= IntMax THEN @ ELSE 5] =
         [words |-> s.words, port |-> s.port, threads |-> s.threads,
          header |-> IF s.header <= IntMax THEN s.header ELSE 5,
          get |-> s.get, put |-> s.put, post |-> s.post]
  BY DEF Settings
<1> QED
  BY <1>10, <1>11 DEF f

-----------------------------------------------------------------------------
(* The program. *)

\* What main has read is a settings file.
LEMMA GivenFacts ==
  ASSUME HInv
  PROVE  given # <<>> => IsSettingsFile(given[1])
BY BoundsAssumption DEF HInv, HTypeOK

LEMMA NamesAreWords ==
  ASSUME HTypeOK, NEW n \in 1 .. 3
  PROVE  NameOf(n) \in Words
<1>1. Order[n] \in WordKeys
  BY DEF Order, WordKeys
<1>2. settings.words \in [WordKeys -> Words]
  BY DEF HTypeOK, Settings
<1> QED
  BY <1>1, <1>2 DEF NameOf

LEMMA AtLeastOneType ==
  ASSUME NEW n \in -IntMax - 1 .. IntMax
  PROVE  AtLeastOne(n) \in 1 .. IntMax
BY WidthAssumption DEF AtLeastOne

\* No argument was looked at.
LEMMA InitHInv == HInit => HInv
<1> SUFFICES ASSUME HInit
             PROVE  HInv
  OBVIOUS
<1>1. settings = Load(NoFile) /\ settings \in Settings
  BY NoFileIsOne, LoadType DEF HInit
<1>2. given = <<>> \/ given[1] \in Files
  BY DEF HInit, Maybe
<1>3. HTypeOK
  BY <1>1, <1>2 DEF HInit, HTypeOK, Places, Order
<1> QED
  BY <1>1, <1>3 DEF HInit, HInv, Unread, Unloaded, Ready, Order

\* The statements before the settings are loaded, and the last.
LEMMA EarlyHInv ==
  ASSUME HInv, Arguments \/ ReadJson \/ Globals \/ SetLogFilter \/ Finish
  PROVE  HInv'
<1>1. /\ UNCHANGED <<given, disk, opened, context, serving>>
      /\ settings' = settings \/ (settings' = Load(NoFile) /\ at = "globals")
      /\ filter' \in Levels \cup {"none"}
      /\ at' \in Places
  <2>1. CASE Arguments \/ ReadJson \/ Finish
    BY <2>1 DEF Arguments, ReadJson, Finish, Goto, HInv, HTypeOK, Places
  <2>2. CASE Globals
    BY <2>2 DEF Globals, Goto, HInv, HTypeOK, Places
  <2>3. CASE SetLogFilter
    BY <2>3 DEF SetLogFilter, Goto, HInv, HTypeOK, Places
  <2> QED
    BY <2>1, <2>2, <2>3
<1>2. Load(NoFile) \in Settings
  BY NoFileIsOne, LoadType
<1>3. HTypeOK'
  BY <1>1, <1>2 DEF HInv, HTypeOK
<1>4. CASE Finish
  BY <1>1, <1>3, <1>4
     DEF Finish, Goto, HInv, Unread, Unloaded, Ready, NameOf, Order
<1>5. CASE Arguments \/ ReadJson \/ Globals \/ SetLogFilter
  <2>1. /\ at \in Unloaded
        /\ at' \in Unloaded \cup {"aborted"}
        /\ at' \notin Unread => given # <<>> \/ at' = "aborted"
    <3>1. CASE Arguments
      BY <3>1 DEF Arguments, Goto, Unloaded, Unread
    <3>2. CASE ReadJson
      BY <3>2 DEF ReadJson, Goto, Unloaded, Unread
    <3>3. CASE Globals \/ SetLogFilter
      BY <3>3 DEF Globals, SetLogFilter, Goto, Unloaded, Unread, HInv
    <3> QED
      BY <1>5, <3>1, <3>2, <3>3
  <2>2. opened = 0 /\ opened' = 0 /\ context = <<>> /\ serving = <<>>
    BY <1>1, <2>1 DEF HInv, Unloaded, Unread, Order
  <2>3. \/ settings' = Load(NoFile)
        \/ given # <<>> /\ settings' = Load(given[1])
    BY <1>1 DEF HInv
  <2>4. at' \notin Ready \cup {"use", "open"}
    BY <2>1 DEF Unloaded, Unread, Ready
  <2> QED
    BY <1>1, <1>3, <2>1, <2>2, <2>3, <2>4 DEF HInv, Order, Unloaded
<1> QED
  BY <1>4, <1>5

\* From here on the settings are those of the file.
LEMMA LoadSettingsHInv ==
  ASSUME HInv, LoadSettings
  PROVE  HInv'
<1>1. /\ UNCHANGED <<given, disk, filter, opened, context, serving>>
      /\ at = "load" /\ at' = "open" /\ settings' = Load(given[1])
      /\ given # <<>> /\ opened = 0
  BY DEF LoadSettings, Goto, HInv, Unread, Unloaded
<1>2. context = <<>> /\ serving = <<>>
  BY <1>1 DEF HInv, Order
<1>3. Load(given[1]) \in Settings
  BY <1>1, GivenFacts, LoadType
<1>4. HTypeOK'
  BY <1>1, <1>3 DEF HInv, HTypeOK, Places
<1> QED
  BY <1>1, <1>2, <1>4 DEF HInv, Unread, Unloaded, Ready, Order

\* A file that is open stays so.
LEMMA OpenFileHInv ==
  ASSUME HInv, OpenFile
  PROVE  HInv'
<1>1. /\ UNCHANGED <<given, disk, settings, filter, context, serving>>
      /\ at = "open" /\ opened \in 0 .. 2 /\ context = <<>> /\ serving = <<>>
      /\ given # <<>> /\ settings = Load(given[1])
  BY DEF OpenFile, HInv, HTypeOK, Order, Unread, Unloaded
<1>2. CASE NameOf(opened + 1) \in disk.readable
  <2>1. /\ opened' = opened + 1
        /\ at' = IF opened' = 3 THEN "use" ELSE "open"
    BY <1>1, <1>2 DEF OpenFile, Order
  <2>2. HTypeOK'
    BY <1>1, <2>1 DEF HInv, HTypeOK, Places, Order
  <2>3. \A n \in 1 .. opened' : NameOf(n)' \in disk'.readable
    BY <1>1, <1>2, <2>1 DEF HInv, NameOf
  <2> QED
    BY <1>1, <2>1, <2>2, <2>3 DEF HInv, Unread, Unloaded, Ready, Order
<1>3. CASE NameOf(opened + 1) \notin disk.readable
  <2>1. at' = "aborted" /\ opened' = opened
    BY <1>1, <1>3 DEF OpenFile
  <2>2. HTypeOK'
    BY <1>1, <2>1 DEF HInv, HTypeOK, Places
  <2> QED
    BY <1>1, <2>1, <2>2 DEF HInv, Unread, Unloaded, Ready, Order, NameOf
<1> QED
  BY <1>2, <1>3

\* The context takes the files settings name, in their order.
LEMMA UseFileHInv ==
  ASSUME HInv, UseFile
  PROVE  HInv'
<1> DEFINE n == Len(context) + 1
<1>1. /\ UNCHANGED <<given, disk, settings, filter, opened, serving>>
      /\ at = "use" /\ n \in 1 .. 3 /\ context \in Seq(Words) /\ opened = 3
      /\ given # <<>> /\ settings = Load(given[1]) /\ serving = <<>>
  BY DEF UseFile, HInv, HTypeOK, Order, Unread, Unloaded, Ready
<1>2. CASE NameOf(n) \in disk.good
  <2>1. /\ context' = Append(context, NameOf(n))
        /\ at' = IF n = 3 THEN "start" ELSE "use"
    BY <1>1, <1>2 DEF UseFile, Order
  <2>2. NameOf(n) \in Words
    BY <1>1, NamesAreWords DEF HInv
  <2>3. /\ context' \in Seq(Words) /\ Len(context') = n
        /\ \A i \in DOMAIN context' :
             context'[i] = IF i = n THEN NameOf(n) ELSE context[i]
    BY <1>1, <2>1, <2>2
  <2>4. HTypeOK'
    BY <1>1, <2>1, <2>3 DEF HInv, HTypeOK, Places
  <2>5. \A i \in DOMAIN context' :
          context'[i] = NameOf(i)' /\ NameOf(i)' \in disk'.good
    <3> SUFFICES ASSUME NEW i \in DOMAIN context'
                 PROVE  context'[i] = NameOf(i) /\ NameOf(i) \in disk.good
      BY <1>1 DEF NameOf
    <3>1. CASE i = n
      BY <3>1, <1>2, <2>3
    <3>2. CASE i # n
      <4>1. i \in DOMAIN context
        BY <3>2, <1>1, <2>3
      <4> QED
        BY <3>2, <4>1, <2>3 DEF HInv
    <3> QED
      BY <3>1, <3>2
  <2>6. \A i \in 1 .. opened' : NameOf(i)' \in disk'.readable
    BY <1>1 DEF HInv, NameOf
  <2> HIDE DEF n
  <2> QED
    BY <1>1, <2>1, <2>3, <2>4, <2>5, <2>6
       DEF HInv, Unread, Unloaded, Ready, Order
<1>3. CASE NameOf(n) \notin disk.good
  <2>1. at' = "aborted" /\ context' = context
    BY <1>1, <1>3 DEF UseFile
  <2>2. HTypeOK'
    BY <1>1, <2>1 DEF HInv, HTypeOK, Places
  <2> QED
    BY <1>1, <2>1, <2>2 DEF HInv, Unread, Unloaded, Ready, Order, NameOf
<1> QED
  BY <1>2, <1>3

\* The service is given what the settings say.
LEMMA StartHInv ==
  ASSUME HInv, Start
  PROVE  HInv'
<1>1. /\ UNCHANGED <<given, disk, settings, filter, opened, context>>
      /\ at = "start"
      /\ given # <<>> /\ settings = Load(given[1]) /\ opened = 3
  BY DEF Start, Goto, HInv, Unread, Unloaded, Ready, Order
<1>2. settings.words["address"] \in Words /\ settings.words["root"] \in Words
      /\ settings.port \in 0 .. UShort - 1
      /\ AtLeastOne(settings.threads) \in 1 .. IntMax
  BY AtLeastOneType DEF HInv, HTypeOK, Settings, WordKeys
<1>3. CASE settings.words["address"] \in Addresses
  <2>1. /\ at' = "serving"
        /\ serving' = <<[address |-> settings.words["address"],
                         port |-> settings.port,
                         root |-> settings.words["root"],
                         threads |-> AtLeastOne(settings.threads)]>>
    BY <1>3 DEF Start, Goto
  <2>2. serving' \in Seq([address : Addresses, port : 0 .. UShort - 1,
                          root : Words, threads : 1 .. IntMax])
    BY <1>2, <1>3, <2>1
  <2>3. HTypeOK'
    BY <1>1, <2>1, <2>2 DEF HInv, HTypeOK, Places
  <2> QED
    BY <1>1, <2>1, <2>3 DEF HInv, Unread, Unloaded, Ready, Order, NameOf
<1>4. CASE settings.words["address"] \notin Addresses
  <2>1. at' = "aborted" /\ serving' = serving
    BY <1>4 DEF Start, Goto
  <2>2. HTypeOK'
    BY <1>1, <2>1 DEF HInv, HTypeOK, Places
  <2>3. serving = <<>>
    BY <1>1 DEF HInv
  <2> QED
    BY <1>1, <2>1, <2>2, <2>3
       DEF HInv, Unread, Unloaded, Ready, Order, NameOf
<1> QED
  BY <1>3, <1>4

\* The program keeps its invariant.
THEOREM ProgramInvariance == HSpec => []HInv
<1>1. HInv /\ [HNext]_hvars => HInv'
  <2> SUFFICES ASSUME HInv, [HNext]_hvars
               PROVE  HInv'
    OBVIOUS
  <2>1. CASE Arguments \/ ReadJson \/ Globals \/ SetLogFilter \/ Finish
    BY <2>1, EarlyHInv
  <2>2. CASE LoadSettings
    BY <2>2, LoadSettingsHInv
  <2>3. CASE OpenFile
    BY <2>3, OpenFileHInv
  <2>4. CASE UseFile
    BY <2>4, UseFileHInv
  <2>5. CASE Start
    BY <2>5, StartHInv
  <2>6. CASE Ended \/ UNCHANGED hvars
    BY <2>6 DEF Ended, hvars, HInv, HTypeOK, NameOf
  <2> QED
    BY <2>1, <2>2, <2>3, <2>4, <2>5, <2>6 DEF HNext
<1> QED
  BY <1>1, InitHInv, PTL DEF HSpec

\* Settings survive being saved, but for a negative time for the header.
THEOREM SettingsRoundTrip == HSpec => []SavedSettingsLoad
<1>1. HInv => SavedSettingsLoad
  <2> SUFFICES ASSUME HInv
               PROVE  SavedSettingsLoad
    OBVIOUS
  <2>1. Lower[settings.words["level"]] = settings.words["level"]
    BY NoFileIsOne, GivenFacts, LoadType DEF HInv
  <2>2. settings \in Settings
    BY DEF HInv, HTypeOK
  <2> QED
    BY <2>1, <2>2, LoadOfSave DEF SavedSettingsLoad
<1> QED
  BY <1>1, ProgramInvariance, PTL

\* The program serves as its settings file asks, or not at all.
THEOREM ServesAsItShould == HSpec => []ServesAsAsked
<1>1. HInv => ServesAsAsked
  <2> SUFFICES ASSUME HInv, serving # <<>>
               PROVE  ServesAsAsked
    BY DEF ServesAsAsked
  <2>1. /\ given # <<>> /\ settings = Load(given[1])
        /\ Len(context) = 3 /\ context \in Seq(Words)
        /\ serving[1] = [address |-> settings.words["address"],
                         port |-> settings.port,
                         root |-> settings.words["root"],
                         threads |-> AtLeastOne(settings.threads)]
    BY DEF HInv, HTypeOK, Unread, Unloaded, Ready, Order
  <2>2. /\ settings.words["address"] = Asked("address")
        /\ settings.words["root"] = Asked("root")
        /\ settings.words["certificate"] = Asked("certificate")
        /\ settings.words["key"] = Asked("key")
        /\ settings.words["dh"] = Asked("dh")
    BY <2>1 DEF Load, Word, Asked, WordKeys
  <2>3. \A n \in DOMAIN context : context[n] = NameOf(n) /\ NameOf(n) \in disk.good
    BY DEF HInv
  <2>4. context = <<Asked("certificate"), Asked("key"), Asked("dh")>>
    <3>1. /\ context[1] = Asked("certificate") /\ context[2] = Asked("key")
          /\ context[3] = Asked("dh")
      BY <2>1, <2>2, <2>3 DEF NameOf, Order
    <3> QED
      BY <2>1, <3>1
  <2>5. Given("port", 0 .. UShort - 1) =>
          serving[1].port = given[1].numbers.port[1]
    <3> DEFINE text == given[1].numbers.port
    <3> SUFFICES ASSUME text # <<>>, text[1] \in 0 .. UShort - 1
                 PROVE  serving[1].port = text[1]
      BY DEF Given
    <3>1. serving[1].port = Unsigned(text, UShort, 8080)
      BY <2>1 DEF Load
    <3>2. FitsUnsigned(text[1], UShort) /\ text[1] % UShort = text[1]
      BY WidthAssumption DEF FitsUnsigned
    <3> QED
      BY <3>1, <3>2 DEF Unsigned
  <2>6. Given("threads", 1 .. IntMax) =>
          serving[1].threads = given[1].numbers.threads[1]
    <3> DEFINE text == given[1].numbers.threads
    <3> SUFFICES ASSUME text # <<>>, text[1] \in 1 .. IntMax
                 PROVE  serving[1].threads = text[1]
      BY DEF Given
    <3>1. serving[1].threads = AtLeastOne(Signed(text, 1))
      BY <2>1 DEF Load
    <3>2. Signed(text, 1) = text[1]
      BY WidthAssumption DEF Signed
    <3>3. AtLeastOne(text[1]) = text[1]
      BY WidthAssumption DEF AtLeastOne
    <3> QED
      BY <3>1, <3>2, <3>3
  <2> QED
    BY <2>1, <2>2, <2>3, <2>4, <2>5, <2>6 DEF ServesAsAsked
<1> QED
  BY <1>1, ProgramInvariance, PTL

=============================================================================
