-------------------------- MODULE StyleBookImport --------------------------
(***************************************************************************)
(* `ldev resource import-style-book` and `export-style-book`: one style    *)
(* book of a site against its file, over JSONWS.  An update is up to two   *)
(* requests, for the tokens and for the name.                              *)
(***************************************************************************)
EXTENDS Integers, Sequences, SequencesExt, TLC

CONSTANTS StyleCases, StyleFaults,   \* bound: requests refused or answers lost
          StyleRuns                  \* bound: times the command is given

(* The portal keeps the ERCs of a site apart.                               *)
StyleBooks == [erc : STRING, key : STRING, name : STRING, theme : STRING, tokens : STRING]
ASSUME StyleAssumption ==
  /\ \A c \in StyleCases :
       /\ DOMAIN c = {"check", "create", "key", "export", "file", "entries"}
       /\ c.file \in StyleBooks /\ c.entries \in Seq(StyleBooks)
       /\ \A i, j \in DOMAIN c.entries : c.entries[i].erc = c.entries[j].erc => i = j
  /\ {StyleFaults, StyleRuns} \subseteq Nat

VARIABLES style,      \* the case
          books,      \* the style books of the site, in the order of the list
          bookFile,   \* the local file: [erc, name, key, theme, tokens]
          stylePc,
          found,      \* index of the style book it updates, 0 for none
          changes,    \* paths that differ: "name", "key", "theme", "tokens"
          styleRuns, styleFaults

styleVars == <<style, books, bookFile, stylePc, found, changes, styleRuns, styleFaults>>

(* A style book goes by its ERC, its key, its id or its name; the first of  *)
(* the list wins.                                                           *)
Answers(b, id) == id \in {b.erc, b.key, b.name}
FindBook(id) == SelectInSeq(books, LAMBDA b : Answers(b, id))
Differences(b) == {p \in {"name", "key", "theme", "tokens"} : b[p] # bookFile[p]}

StyleStart(pc) ==
  /\ style \in StyleCases
  /\ books = style.entries /\ bookFile = style.file
  /\ stylePc = pc /\ found = 0 /\ changes = {} /\ styleRuns = 0 /\ styleFaults = 0
StyleInit == StyleStart("start")

ExportStyleBook ==
  /\ stylePc = "start" /\ style.export
  /\ IF FindBook(style.key) = 0 THEN stylePc' = "error" /\ UNCHANGED bookFile
     ELSE stylePc' = "ready" /\ bookFile' = books[FindBook(style.key)]
  /\ UNCHANGED <<style, books, found, changes, styleRuns, styleFaults>>

(* The file is read, the style book found and compared.                     *)
CompareBook ==
  /\ \/ stylePc = "ready"
     \/ stylePc = "start" /\ ~style.export
  /\ styleRuns' = styleRuns + 1
  /\ LET i == FindBook(bookFile.erc)
     IN  /\ found' = i
         /\ changes' = IF i = 0 THEN {"erc"} ELSE Differences(books[i])
         /\ stylePc' = IF style.key \notin {"", bookFile.erc} \/ (i = 0 /\ ~style.create) THEN "error"
                       ELSE IF style.check THEN "checked"
                       ELSE IF i = 0 THEN "add" ELSE "tokens"
  /\ UNCHANGED <<style, books, bookFile, styleFaults>>

AddBook ==
  /\ stylePc = "add" /\ books' = Append(books, bookFile) /\ stylePc' = "verify"
  /\ UNCHANGED <<style, bookFile, found, changes, styleRuns, styleFaults>>
UpdateTokens ==
  /\ stylePc = "tokens" /\ stylePc' = "name"
  /\ books' = IF "tokens" \in changes THEN [books EXCEPT ![found].tokens = bookFile.tokens] ELSE books
  /\ UNCHANGED <<style, bookFile, found, changes, styleRuns, styleFaults>>
UpdateName ==
  /\ stylePc = "name" /\ stylePc' = "verify"
  /\ books' = IF "name" \in changes THEN [books EXCEPT ![found].name = bookFile.name] ELSE books
  /\ UNCHANGED <<style, bookFile, found, changes, styleRuns, styleFaults>>

(* The theme of a style book cannot be changed and is not compared.         *)
BugStillPending == Differences(books[FindBook(bookFile.erc)]) \cap {"tokens"}
StillPending == IF FindBook(bookFile.erc) = 0 THEN changes
                ELSE Differences(books[FindBook(bookFile.erc)]) \ {"theme"}
VerifyBook ==
  /\ stylePc = "verify" /\ stylePc' = IF StillPending = {} THEN "ok" ELSE "mismatch"
  /\ UNCHANGED <<style, books, bookFile, found, changes, styleRuns, styleFaults>>

(* A request is refused, or done with its answer lost.                      *)
StyleFails ==
  /\ stylePc \in {"add", "tokens", "name", "verify"} /\ stylePc' = "failed"
  /\ styleFaults < StyleFaults /\ styleFaults' = styleFaults + 1
  /\ books' \in {books} \cup CASE stylePc = "add" -> {Append(books, bookFile)}
                               [] stylePc = "verify" -> {}
                               [] OTHER -> IF stylePc \in changes
                                             THEN {[books EXCEPT ![found][stylePc] = bookFile[stylePc]]} ELSE {}
  /\ UNCHANGED <<style, bookFile, found, changes, styleRuns>>

StyleAgain ==
  /\ stylePc \in {"ok", "mismatch", "failed"} /\ 1 <= styleRuns /\ styleRuns < StyleRuns
  /\ stylePc' = "ready"
  /\ UNCHANGED <<style, books, bookFile, found, changes, styleRuns, styleFaults>>

StyleStep == ExportStyleBook \/ CompareBook \/ AddBook \/ UpdateTokens \/ UpdateName \/ VerifyBook
StyleNext == StyleStep \/ StyleFails \/ StyleAgain
StyleSpec == StyleInit /\ [][StyleNext]_styleVars /\ WF_styleVars(StyleStep)

-----------------------------------------------------------------------------
(* As long as no other style book goes by the ERC of the file: no other     *)
(* style book is touched and none is added twice, an import that ends well  *)
(* left the style book as the file has it but for the theme, and one that   *)
(* is given again after a failure ends well, unless the key differs.        *)
AliasedBook == \E i \in DOMAIN style.entries :
                 style.entries[i].erc # bookFile.erc /\ Answers(style.entries[i], bookFile.erc)
StyleBooksAreFaithful ==
  ~AliasedBook =>
    /\ \A i \in DOMAIN style.entries : books[i].erc # bookFile.erc => books[i] = style.entries[i]
    /\ \A i, j \in DOMAIN books : books[i].erc = books[j].erc => i = j
    /\ stylePc = "ok" => \E i \in DOMAIN books : [books[i] EXCEPT !.theme = bookFile.theme] = bookFile
    /\ stylePc = "mismatch" => \E i \in DOMAIN style.entries :
          style.entries[i].erc = bookFile.erc /\ style.entries[i].key # bookFile.key
=============================================================================
