---------------------------- MODULE UploadParts -----------------------------
(***************************************************************************)
(* The reading of a multipart request: the parsers of a release, of mods,  *)
(* of a texture and of user content, on top of utils/multipart-file, up to *)
(* the removal of the temporary files by publish and uploadMods.           *)
(*                                                                         *)
(* A file goes to a slot: the artifact or the signature of a platform, a   *)
(* mod of a name (in lower case, as the parser compares them), or the one  *)
(* file of a request.  Its content is the number of its bytes.  A removal  *)
(* of a file does not fail.                                                *)
(***************************************************************************)
EXTENDS Naturals

CONSTANTS
  Keys,         \* platforms of a release, names of mods
  StreamLimit,  \* bytes after which the library truncates a file: the limit
                \* of artifacts, mods and user content as well
  SmallLimit,   \* bytes of a signature or a texture, less than StreamLimit
  MaxParts,     \* bound: parts of a request
  None

VARIABLES
  kind,     \* of the request
  at,       \* where its handler is
  parts,    \* how many parts were read
  field,    \* the field version or model was there
  slot,     \* of the file that is being read, or None
  sent,     \* what the client sends of each file
  written,  \* what has been read of it
  tmp,      \* tmp/upload-tmp
  listed,   \* staged: the temporary files to remove when the request fails
  held,     \* the files that were read
  taken     \* the files that were handed on

vars == <<kind, at, parts, field, slot, sent, written, tmp, listed, held, taken>>

Slots == CASE kind = "release" -> Keys \X {"artifact", "signature"}
           [] kind = "mods" -> Keys \X {"mod"}
           [] OTHER -> {<<None, "file">>}
ToDisk == kind \in {"release", "mods"}
ReadLimit(s) == IF kind = "texture" \/ s[2] = "signature" THEN SmallLimit ELSE StreamLimit
Received(s) == IF sent[s] > StreamLimit THEN StreamLimit ELSE sent[s]

Sizes == 0..(StreamLimit + 1)
Files == UNION {[ss -> Sizes] : ss \in SUBSET Slots}
TypeOK ==
  /\ kind \in {"release", "mods", "texture", "content"}
  /\ at \in {"next", "stream", "parsed", "refused", "done", "stopped", "swept"}
  /\ parts \in 0..MaxParts /\ field \in BOOLEAN /\ written \in 0..StreamLimit
  /\ slot \in Slots \cup {None} /\ listed \subseteq Slots
  /\ {sent, tmp, held, taken} \subseteq Files

NoFiles == [s \in {} |-> 0]
Without(f, ss) == [s \in DOMAIN f \ ss |-> f[s]]
With(f, s, n) == [x \in DOMAIN f \cup {s} |-> IF x = s THEN n ELSE f[x]]

Init ==
  /\ kind \in {"release", "mods", "texture", "content"}
  /\ at = "next" /\ parts = 0 /\ field = FALSE /\ slot = None /\ written = 0
  /\ listed = {}
  /\ sent = NoFiles /\ tmp = NoFiles /\ held = NoFiles /\ taken = NoFiles
-----------------------------------------------------------------------------
\* The parser throws; removed is what it removed before it got there.
Refuse(removed) == at' = "refused" /\ tmp' = Without(tmp, removed \cup listed)

NextPart == at = "next" /\ parts < MaxParts /\ parts' = parts + 1

\* The field that a parser knows comes once and is a string; others are passed over.
Field ==
  /\ NextPart
  /\ \/ kind \in {"release", "texture"} /\ ~field /\ field' = TRUE /\ UNCHANGED <<at, tmp>>
     \/ kind \in {"release", "texture"} /\ Refuse({}) /\ UNCHANGED field
     \/ UNCHANGED <<field, at, tmp>>
  /\ UNCHANGED <<kind, slot, sent, written, listed, held, taken>>

\* A file for a slot that is free; only a release notes its path before it is read.
Begin(s) ==
  /\ NextPart /\ s \notin DOMAIN held
  /\ \E n \in Sizes : sent' = With(sent, s, n)
  /\ at' = "stream" /\ slot' = s /\ written' = 0
  /\ tmp' = IF ToDisk THEN With(tmp, s, 0) ELSE tmp
  /\ listed' = IF kind = "release" THEN listed \cup {s} ELSE listed
  /\ UNCHANGED <<kind, field, held, taken>>

\* A second file for a slot, or a field, a name or an extension nobody knows.
RefusePart ==
  /\ NextPart
  /\ kind = "content" => DOMAIN held # {}
  /\ Refuse({})
  /\ UNCHANGED <<kind, field, slot, sent, written, listed, held, taken>>

Read ==
  /\ at = "stream" /\ written < Received(slot) /\ written < ReadLimit(slot)
  /\ written' = written + 1
  /\ tmp' = IF ToDisk THEN [tmp EXCEPT ![slot] = written'] ELSE tmp
  /\ UNCHANGED <<kind, at, parts, field, slot, sent, listed, held, taken>>

\* BUG: a file that was not read to its end is left to the caller.
BreakBehind ==
  /\ at = "stream" /\ Refuse({})
  /\ UNCHANGED <<kind, parts, field, slot, sent, written, listed, held, taken>>

\* The file is larger than its limit, or the stream, the disk or the client fails.
Break ==
  /\ at = "stream" /\ Refuse({slot})
  /\ UNCHANGED <<kind, parts, field, slot, sent, written, listed, held, taken>>

\* The stream is over; one that was truncated is an error that the caller looks for.
Truncated ==
  /\ at = "stream" /\ written = Received(slot) /\ sent[slot] > StreamLimit
  /\ Refuse({slot})
  /\ UNCHANGED <<kind, parts, field, slot, sent, written, listed, held, taken>>

Keep ==
  /\ at = "stream" /\ written = Received(slot) /\ sent[slot] <= StreamLimit
  /\ held' = With(held, slot, written)
  /\ listed' = IF ToDisk THEN listed \cup {slot} ELSE listed
  /\ at' = "next" /\ slot' = None
  /\ UNCHANGED <<kind, parts, field, sent, written, tmp, taken>>

\* The request is over, or fails between two parts.
Complete ==
  IF kind = "release"
  THEN \A k \in Keys : <<k, "artifact">> \in DOMAIN held <=> <<k, "signature">> \in DOMAIN held
  ELSE DOMAIN held # {}
Parsed ==
  /\ at = "next" /\ Complete /\ at' = "parsed"
  /\ UNCHANGED <<kind, parts, field, slot, sent, written, tmp, listed, held, taken>>
Fail ==
  /\ at = "next" /\ Refuse({})
  /\ UNCHANGED <<kind, parts, field, slot, sent, written, listed, held, taken>>

\* What publish looks at before it begins; a signature of no bytes is a blank one.
Publishable ==
  /\ field /\ DOMAIN held # {}
  /\ \A s \in DOMAIN held : s[2] = "signature" => held[s] > 0

\* publish and uploadMods take the files or fail, and remove those that are left.
HandOver ==
  /\ at = "parsed" /\ at' = "done" /\ tmp' = Without(tmp, DOMAIN held)
  /\ \/ (kind = "release" => Publishable) /\ taken' = held
     \/ UNCHANGED taken
  /\ UNCHANGED <<kind, parts, field, slot, sent, written, listed, held>>

\* The process ends, and the next one removes all temporary files.
Stop ==
  /\ at \in {"next", "stream", "parsed"} /\ at' = "stopped"
  /\ UNCHANGED <<kind, parts, field, slot, sent, written, tmp, listed, held, taken>>
SweepUploadTmp ==
  /\ at = "stopped" /\ at' = "swept" /\ tmp' = NoFiles
  /\ UNCHANGED <<kind, parts, field, slot, sent, written, listed, held, taken>>

Next ==
  \/ Field \/ RefusePart \/ Read \/ Break \/ Truncated \/ Keep \/ Parsed \/ Fail
  \/ HandOver \/ Stop \/ SweepUploadTmp
  \/ \E s \in Slots : Begin(s)
Spec == Init /\ [][Next]_vars
-----------------------------------------------------------------------------
(***************************************************************************)
(* Whatever a request was cut off by, none of its files is left behind; a  *)
(* parser that accepts has every file whole and within its limit, on the   *)
(* disk as in its answer; and a release that is published has a signature  *)
(* that is not blank for every artifact, and an artifact for every         *)
(* signature.                                                              *)
(***************************************************************************)
NothingLeft == at \in {"refused", "done", "swept"} => tmp = NoFiles
AllWhole ==
  at = "parsed" =>
    /\ \A s \in DOMAIN held : held[s] = sent[s] /\ held[s] <= ReadLimit(s)
    /\ tmp = IF ToDisk THEN held ELSE NoFiles
Paired ==
  kind = "release" /\ DOMAIN taken # {} =>
    \E ks \in SUBSET Keys :
      /\ DOMAIN taken = ks \X {"artifact", "signature"}
      /\ \A k \in ks : taken[<<k, "signature">>] > 0
=============================================================================
