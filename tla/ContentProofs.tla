--------------------------- MODULE ContentProofs ---------------------------
(***************************************************************************)
(* Proofs about SourceCapture and EffectivePolicies, as parts of MCContent:*)
(* what is captured was there all at once (CaptureSafety), and the policies*)
(* that decide are those that were reviewed (PolicySafety), for whatever   *)
(* directories, manifests, editions, profiles, rules and requests.         *)
(***************************************************************************)
EXTENDS MCContent, FiniteSetTheorems, WellFoundedInduction, TLAPS

-----------------------------------------------------------------------------
(***************************************************************************)
(* Texts that do not come back.  Of a file that has the same text at two   *)
(* moments, nobody has seen another one in between; and a file that is     *)
(* there at two moments was there all the time.                            *)
(***************************************************************************)

NeverBack(texts) ==
    \A i, j \in DOMAIN texts : \A k \in i .. j :
        /\ texts[i] = texts[j] => texts[k] = texts[i]
        /\ texts[i] # 0 /\ texts[j] # 0 => texts[k] # 0

LEMMA OneText == ASSUME NEW texts, DOMAIN texts = 1 .. 1 PROVE NeverBack(texts)
BY DEF NeverBack

\* A file keeps that property when it stays as it is or gets a text of its own.
LEMMA AnotherText ==
    ASSUME NEW n \in Nat \ {0}, NEW texts, NEW more,
           DOMAIN texts = 1 .. n, DOMAIN more = 1 .. n + 1,
           \A k \in 1 .. n : more[k] = texts[k],
           NeverBack(texts),
           \/ more[n + 1] = texts[n]
           \/ /\ \A k \in 1 .. n : texts[k] # more[n + 1]
              /\ texts[n] = 0 => \A k \in 1 .. n : texts[k] = 0
    PROVE  NeverBack(more)
<1> SUFFICES ASSUME NEW i \in 1 .. n + 1, NEW j \in 1 .. n + 1, NEW k \in i .. j
             PROVE  /\ more[i] = more[j] => more[k] = more[i]
                    /\ more[i] # 0 /\ more[j] # 0 => more[k] # 0
  BY DEF NeverBack
<1>1. CASE j \in 1 .. n
  <2>1. i \in 1 .. n /\ k \in 1 .. n
    BY <1>1
  <2> QED
    BY <1>1, <2>1 DEF NeverBack
<1>2. CASE j = n + 1 /\ k = n + 1
  BY <1>2
<1>3. CASE j = n + 1 /\ k # n + 1
  <2>1. i \in 1 .. n /\ k \in 1 .. n /\ k \in i .. n /\ n \in 1 .. n
    BY <1>3
  <2>2. /\ texts[i] = texts[n] => texts[k] = texts[i]
        /\ texts[i] # 0 /\ texts[n] # 0 => texts[k] # 0
    BY <2>1 DEF NeverBack
  <2>3. more[i] = texts[i] /\ more[k] = texts[k]
    BY <2>1
  <2>4. CASE more[n + 1] = texts[n]
    BY <1>3, <2>2, <2>3, <2>4
  <2>5. CASE /\ \A m \in 1 .. n : texts[m] # more[n + 1]
             /\ texts[n] = 0 => \A m \in 1 .. n : texts[m] = 0
    BY <1>3, <2>1, <2>2, <2>3, <2>5
  <2> QED
    BY <2>4, <2>5
<1> QED
  BY <1>1, <1>2, <1>3

(***************************************************************************)
(* What a moment of the sources is, and what has been read from one moment *)
(* to another.                                                             *)
(***************************************************************************)

Layouts == [1 .. Roots -> Sources!Directory]
Choices == [edition : Nat, pins : {Sources!PinsOf(roots) : roots \in Layouts}]
Moment == [profile : Choices \cup {<<>>}, roots : Layouts]

TextsSeen(history, texts, r, i, j) ==
    \A p \in DOMAIN texts : texts[p] # 0 /\ \E k \in i .. j : texts[p] = history[k].roots[r].policies[p]
ManifestSeen(history, text, r, i, j) == \E k \in i .. j : text = history[k].roots[r].manifest
NoticeSeen(history, text, r, i, j) == \E k \in i .. j : text = history[k].roots[r].notice
UnlistedSeen(history, files, texts, r, i, j) ==
    \E k \in i .. j : files = Sources!Unlisted(history[k].roots[r], DOMAIN texts)
ProfileSeen(history, choice, i, j) == \E k \in i .. j : choice = history[k].profile

\* All the policies that were there were listed, when no manifest was.
AllListed(history, text, members0, r, i, j) ==
    \E k \in i .. j :
        text = 0 /\ history[k].roots[r].manifest = 0 => members0 = Sources!Present(history[k].roots[r])

\* The first of the two readings of a directory.
Previewed(history, pack0, r, i, j) ==
    /\ TextsSeen(history, pack0.contents, r, i, j)
    /\ ManifestSeen(history, pack0.manifest, r, i, j)
    /\ AllListed(history, pack0.manifest, DOMAIN pack0.contents, r, i, j)

\* The declaration of a captured directory and what it lists.
Obeyed(bound, text, declaration, members0) ==
    /\ declaration = Sources!Declaration(text)
    /\ text # 0 => members0 = Declares[text].members
    /\ bound => text # 0

\* The second of them.
Taken(history, bound, pack0, r, i, j) ==
    /\ TextsSeen(history, pack0.contents, r, i, j)
    /\ ManifestSeen(history, pack0.manifest, r, i, j)
    /\ NoticeSeen(history, pack0.notice, r, i, j)
    /\ UnlistedSeen(history, pack0.unlisted, pack0.contents, r, i, j)
    /\ Obeyed(bound, pack0.manifest, pack0.declared, DOMAIN pack0.contents)

\* What has been seen in some period has been seen in a longer one, and edits do
\* not change the past.
LEMMA SeenStays ==
    ASSUME NEW history, NEW later, NEW i \in Nat, NEW j \in Nat, NEW first \in Nat, NEW last \in Nat,
           first <= i, j <= last, \A k \in i .. j : later[k] = history[k], NEW r
    PROVE  /\ \A texts : TextsSeen(history, texts, r, i, j) => TextsSeen(later, texts, r, first, last)
           /\ \A text : ManifestSeen(history, text, r, i, j) => ManifestSeen(later, text, r, first, last)
           /\ \A text : NoticeSeen(history, text, r, i, j) => NoticeSeen(later, text, r, first, last)
           /\ \A files, texts : UnlistedSeen(history, files, texts, r, i, j)
                                    => UnlistedSeen(later, files, texts, r, first, last)
           /\ \A choice : ProfileSeen(history, choice, i, j) => ProfileSeen(later, choice, first, last)
           /\ \A text, members0 : AllListed(history, text, members0, r, i, j)
                                    => AllListed(later, text, members0, r, first, last)
           /\ \A pack0 : Previewed(history, pack0, r, i, j) => Previewed(later, pack0, r, first, last)
           /\ \A bound, pack0 : Taken(history, bound, pack0, r, i, j) => Taken(later, bound, pack0, r, first, last)
<1>0. \A k \in i .. j : k \in first .. last
  OBVIOUS
<1>1. \A texts : TextsSeen(history, texts, r, i, j) => TextsSeen(later, texts, r, first, last)
  BY <1>0 DEF TextsSeen
<1>2. \A text : ManifestSeen(history, text, r, i, j) => ManifestSeen(later, text, r, first, last)
  BY <1>0 DEF ManifestSeen
<1>3. \A text : NoticeSeen(history, text, r, i, j) => NoticeSeen(later, text, r, first, last)
  BY <1>0 DEF NoticeSeen
<1>4. \A files, texts : UnlistedSeen(history, files, texts, r, i, j)
                           => UnlistedSeen(later, files, texts, r, first, last)
  BY <1>0 DEF UnlistedSeen
<1>5. \A choice : ProfileSeen(history, choice, i, j) => ProfileSeen(later, choice, first, last)
  BY <1>0 DEF ProfileSeen
<1>6. \A text, members0 : AllListed(history, text, members0, r, i, j)
                            => AllListed(later, text, members0, r, first, last)
  BY <1>0 DEF AllListed
<1>7. \A pack0 : Previewed(history, pack0, r, i, j) => Previewed(later, pack0, r, first, last)
  BY <1>1, <1>2, <1>6, Zenon DEF Previewed
<1>8. \A bound, pack0 : Taken(history, bound, pack0, r, i, j) => Taken(later, bound, pack0, r, first, last)
  BY <1>1, <1>2, <1>3, <1>4, Zenon DEF Taken
<1> QED
  BY <1>1, <1>2, <1>3, <1>4, <1>5, <1>6, <1>7, <1>8

ManifestTexts(history, r) == [k \in 1 .. Len(history) |-> history[k].roots[r].manifest]
NoticeTexts(history, r) == [k \in 1 .. Len(history) |-> history[k].roots[r].notice]
PolicyTexts(history, r, p) == [k \in 1 .. Len(history) |-> history[k].roots[r].policies[p]]

\* No file goes back to a text that it had.
Steady(history) ==
    \A r \in 1 .. Roots :
        /\ NeverBack(ManifestTexts(history, r)) /\ NeverBack(NoticeTexts(history, r))
        /\ \A p \in 1 .. FilesPerRoot : NeverBack(PolicyTexts(history, r, p))

\* And no profile to an earlier edition.
Forward(history) ==
    \A i, j \in 1 .. Len(history) : i <= j =>
        /\ history[i].profile \in Choices
        /\ history[i].profile.edition <= history[j].profile.edition
        /\ history[i].profile.edition = history[j].profile.edition => history[i].profile = history[j].profile

\* A history of sources.
Sound(history) ==
    Len(history) \in Nat /\ Steady(history) /\ \A k \in 1 .. Len(history) : history[k] \in Moment

\* What both periods, a .. b and c .. d, have seen is there at the moment m.
ThereAt(history, r, a, b, c, d, m) ==
    /\ \A texts : /\ DOMAIN texts \subseteq 1 .. FilesPerRoot
                  /\ TextsSeen(history, texts, r, a, b) /\ TextsSeen(history, texts, r, c, d)
                  => \A p \in DOMAIN texts : texts[p] # 0 /\ texts[p] = history[m].roots[r].policies[p]
    /\ \A text : ManifestSeen(history, text, r, a, b) /\ ManifestSeen(history, text, r, c, d)
                  => text = history[m].roots[r].manifest
    /\ \A text : NoticeSeen(history, text, r, a, b) /\ NoticeSeen(history, text, r, c, d)
                  => text = history[m].roots[r].notice
    /\ \A files, texts : UnlistedSeen(history, files, texts, r, a, b) /\ UnlistedSeen(history, files, texts, r, c, d)
                  => files = Sources!Unlisted(history[m].roots[r], DOMAIN texts)

\* What is seen before and after a moment is there at that moment.
LEMMA SeenTwice ==
    ASSUME NEW history, Sound(history),
           NEW a \in 1 .. Len(history), NEW b \in 1 .. Len(history),
           NEW c \in 1 .. Len(history), NEW d \in 1 .. Len(history), NEW m \in b .. c, NEW r \in 1 .. Roots
    PROVE  ThereAt(history, r, a, b, c, d, m)
<1> DEFINE N == Len(history)
<1> USE DEF Sound
<1>0. m \in 1 .. N /\ \A i \in a .. b, j \in c .. d : i \in 1 .. N /\ j \in 1 .. N /\ m \in i .. j
  OBVIOUS
<1>1. \A i \in a .. b, j \in c .. d :
         /\ ManifestTexts(history, r)[i] = ManifestTexts(history, r)[j]
                => ManifestTexts(history, r)[m] = ManifestTexts(history, r)[i]
         /\ NoticeTexts(history, r)[i] = NoticeTexts(history, r)[j]
                => NoticeTexts(history, r)[m] = NoticeTexts(history, r)[i]
  <2>1. NeverBack(ManifestTexts(history, r)) /\ NeverBack(NoticeTexts(history, r))
    BY DEF Steady
  <2>2. DOMAIN ManifestTexts(history, r) = 1 .. N /\ DOMAIN NoticeTexts(history, r) = 1 .. N
    BY DEF ManifestTexts, NoticeTexts
  <2> QED
    BY <1>0, <2>1, <2>2, ZenonT(30) DEF NeverBack
<1>2. \A p \in 1 .. FilesPerRoot : \A i \in a .. b, j \in c .. d :
         /\ PolicyTexts(history, r, p)[i] = PolicyTexts(history, r, p)[j]
                => PolicyTexts(history, r, p)[m] = PolicyTexts(history, r, p)[i]
         /\ PolicyTexts(history, r, p)[i] # 0 /\ PolicyTexts(history, r, p)[j] # 0
                => PolicyTexts(history, r, p)[m] # 0
  <2>1. \A p \in 1 .. FilesPerRoot : NeverBack(PolicyTexts(history, r, p))
    BY DEF Steady
  <2>2. \A p \in 1 .. FilesPerRoot : DOMAIN PolicyTexts(history, r, p) = 1 .. N
    BY DEF PolicyTexts
  <2> TAKE p \in 1 .. FilesPerRoot
  <2> TAKE i \in a .. b, j \in c .. d
  <2> DEFINE texts == PolicyTexts(history, r, p)
  <2>3. i \in DOMAIN texts /\ j \in DOMAIN texts /\ m \in i .. j
    BY <1>0, <2>2
  <2>4. NeverBack(texts)
    BY <2>1
  <2>5. /\ texts[i] = texts[j] => texts[m] = texts[i]
        /\ texts[i] # 0 /\ texts[j] # 0 => texts[m] # 0
    <3> HIDE DEF texts
    <3> QED
      BY <2>3, <2>4 DEF NeverBack
  <2> QED
    BY <2>5, Zenon
<1>3. \A k \in 1 .. N : /\ ManifestTexts(history, r)[k] = history[k].roots[r].manifest
                        /\ NoticeTexts(history, r)[k] = history[k].roots[r].notice
                        /\ \A p \in 1 .. FilesPerRoot : PolicyTexts(history, r, p)[k] = history[k].roots[r].policies[p]
  BY DEF ManifestTexts, NoticeTexts, PolicyTexts
<1> HIDE DEF N
<1>4. ASSUME NEW texts, DOMAIN texts \subseteq 1 .. FilesPerRoot,
             TextsSeen(history, texts, r, a, b), TextsSeen(history, texts, r, c, d), NEW p \in DOMAIN texts
      PROVE  texts[p] # 0 /\ texts[p] = history[m].roots[r].policies[p]
  <2>1. PICK i \in a .. b : texts[p] # 0 /\ texts[p] = history[i].roots[r].policies[p]
    BY <1>4 DEF TextsSeen
  <2>2. PICK j \in c .. d : texts[p] = history[j].roots[r].policies[p]
    BY <1>4 DEF TextsSeen
  <2>3. p \in 1 .. FilesPerRoot /\ i \in 1 .. N /\ j \in 1 .. N /\ m \in 1 .. N
    BY <1>0, <1>4
  <2>4. history[i].roots[r].policies[p] = history[j].roots[r].policies[p]
            => history[m].roots[r].policies[p] = history[i].roots[r].policies[p]
    <3>1. /\ PolicyTexts(history, r, p)[i] = history[i].roots[r].policies[p]
          /\ PolicyTexts(history, r, p)[j] = history[j].roots[r].policies[p]
          /\ PolicyTexts(history, r, p)[m] = history[m].roots[r].policies[p]
      BY <1>3, <2>3, Zenon
    <3>2. PolicyTexts(history, r, p)[i] = PolicyTexts(history, r, p)[j]
                => PolicyTexts(history, r, p)[m] = PolicyTexts(history, r, p)[i]
      BY <1>2, <2>3, Zenon
    <3> QED
      BY <3>1, <3>2
  <2> QED
    BY <2>1, <2>2, <2>4
<1>5. ASSUME NEW text, ManifestSeen(history, text, r, a, b), ManifestSeen(history, text, r, c, d)
      PROVE  text = history[m].roots[r].manifest
  <2>1. PICK i \in a .. b : text = history[i].roots[r].manifest
    BY <1>5 DEF ManifestSeen
  <2>2. PICK j \in c .. d : text = history[j].roots[r].manifest
    BY <1>5 DEF ManifestSeen
  <2>3. i \in 1 .. N /\ j \in 1 .. N /\ m \in 1 .. N
    BY <1>0
  <2>4. /\ ManifestTexts(history, r)[i] = history[i].roots[r].manifest
        /\ ManifestTexts(history, r)[j] = history[j].roots[r].manifest
        /\ ManifestTexts(history, r)[m] = history[m].roots[r].manifest
    BY <1>3, <2>3, Zenon
  <2>5. ManifestTexts(history, r)[i] = ManifestTexts(history, r)[j]
          => ManifestTexts(history, r)[m] = ManifestTexts(history, r)[i]
    BY <1>1, Zenon
  <2> QED
    BY <2>1, <2>2, <2>4, <2>5
<1>6. ASSUME NEW text, NoticeSeen(history, text, r, a, b), NoticeSeen(history, text, r, c, d)
      PROVE  text = history[m].roots[r].notice
  <2>1. PICK i \in a .. b : text = history[i].roots[r].notice
    BY <1>6 DEF NoticeSeen
  <2>2. PICK j \in c .. d : text = history[j].roots[r].notice
    BY <1>6 DEF NoticeSeen
  <2>3. i \in 1 .. N /\ j \in 1 .. N /\ m \in 1 .. N
    BY <1>0
  <2>4. /\ NoticeTexts(history, r)[i] = history[i].roots[r].notice
        /\ NoticeTexts(history, r)[j] = history[j].roots[r].notice
        /\ NoticeTexts(history, r)[m] = history[m].roots[r].notice
    BY <1>3, <2>3, Zenon
  <2>5. NoticeTexts(history, r)[i] = NoticeTexts(history, r)[j]
          => NoticeTexts(history, r)[m] = NoticeTexts(history, r)[i]
    BY <1>1, Zenon
  <2> QED
    BY <2>1, <2>2, <2>4, <2>5
<1>7. ASSUME NEW files, NEW texts, UnlistedSeen(history, files, texts, r, a, b),
             UnlistedSeen(history, files, texts, r, c, d)
      PROVE  files = Sources!Unlisted(history[m].roots[r], DOMAIN texts)
  <2>1. PICK i \in a .. b : files = Sources!Unlisted(history[i].roots[r], DOMAIN texts)
    BY <1>7 DEF UnlistedSeen
  <2>2. PICK j \in c .. d : files = Sources!Unlisted(history[j].roots[r], DOMAIN texts)
    BY <1>7 DEF UnlistedSeen
  <2>3. i \in 1 .. N /\ j \in 1 .. N /\ m \in 1 .. N
    BY <1>0
  <2>4. ASSUME NEW k \in 1 .. N
        PROVE  Sources!Unlisted(history[k].roots[r], DOMAIN texts)
                 = {p \in 1 .. FilesPerRoot : history[k].roots[r].policies[p] # 0 /\ p \notin DOMAIN texts}
    BY DEF Sources!Unlisted, Sources!Present, Sources!Absent
  <2>5. \A p \in 1 .. FilesPerRoot : p \in Sources!Unlisted(history[m].roots[r], DOMAIN texts) <=> p \in files
    <3> TAKE p \in 1 .. FilesPerRoot
    <3>1. /\ history[i].roots[r].policies[p] = history[j].roots[r].policies[p]
                => history[m].roots[r].policies[p] = history[i].roots[r].policies[p]
          /\ history[i].roots[r].policies[p] # 0 /\ history[j].roots[r].policies[p] # 0
                => history[m].roots[r].policies[p] # 0
      <4>1. /\ PolicyTexts(history, r, p)[i] = history[i].roots[r].policies[p]
            /\ PolicyTexts(history, r, p)[j] = history[j].roots[r].policies[p]
            /\ PolicyTexts(history, r, p)[m] = history[m].roots[r].policies[p]
        BY <1>3, <2>3, Zenon
      <4>2. /\ PolicyTexts(history, r, p)[i] = PolicyTexts(history, r, p)[j]
                  => PolicyTexts(history, r, p)[m] = PolicyTexts(history, r, p)[i]
            /\ PolicyTexts(history, r, p)[i] # 0 /\ PolicyTexts(history, r, p)[j] # 0
                  => PolicyTexts(history, r, p)[m] # 0
        BY <1>2, Zenon
      <4> QED
        BY <4>1, <4>2
    <3>2. p \in files <=> history[i].roots[r].policies[p] # 0 /\ p \notin DOMAIN texts
      BY <2>1, <2>3, <2>4
    <3>3. p \in files <=> history[j].roots[r].policies[p] # 0 /\ p \notin DOMAIN texts
      BY <2>2, <2>3, <2>4
    <3>4. p \in Sources!Unlisted(history[m].roots[r], DOMAIN texts)
            <=> history[m].roots[r].policies[p] # 0 /\ p \notin DOMAIN texts
      BY <2>3, <2>4
    <3> QED
      BY <3>1, <3>2, <3>3, <3>4
  <2>6. files \subseteq 1 .. FilesPerRoot /\ Sources!Unlisted(history[m].roots[r], DOMAIN texts) \subseteq 1 .. FilesPerRoot
    BY <2>1, <2>3, <2>4
  <2> QED
    BY <2>5, <2>6
<1> QED
  BY <1>4, <1>5, <1>6, <1>7 DEF ThereAt

\* A profile that is read before and after a moment is selected at that moment.
LEMMA ProfileTwice ==
    ASSUME NEW history, Len(history) \in Nat, Forward(history),
           NEW i \in 1 .. Len(history), NEW j \in 1 .. Len(history), NEW m \in i .. j,
           history[i].profile = history[j].profile
    PROVE  history[m].profile = history[i].profile
<1>1. m \in 1 .. Len(history) /\ i <= m /\ m <= j
  OBVIOUS
<1>2. history[i].profile.edition \in Nat /\ history[m].profile.edition \in Nat /\ history[j].profile.edition \in Nat
  BY <1>1 DEF Forward, Choices
<1>3. history[i].profile.edition <= history[m].profile.edition /\ history[m].profile.edition <= history[j].profile.edition
  BY <1>1 DEF Forward
<1>4. history[i].profile.edition = history[m].profile.edition
  BY <1>2, <1>3
<1> QED
  BY <1>1, <1>4 DEF Forward

\* A directory that is captured twice is whole at a moment in between: at any
\* if it has a manifest, and without one when its files were listed between.
LEMMA WholeBetween ==
    ASSUME NEW history, Sound(history),
           NEW s \in 1 .. Len(history), NEW t \in s .. Len(history), NEW r \in 1 .. Roots, NEW bound,
           NEW pack0 \in Sources!Pack, NEW preview,
           Taken(history, bound, pack0, r, 1, s), Taken(history, bound, pack0, r, t, Len(history)),
           Previewed(history, preview, r, s, t), DOMAIN preview.contents = DOMAIN pack0.contents
    PROVE  /\ pack0.manifest # 0 => \A m \in s .. t : pack0 = Sources!Whole(history[m].roots[r])
           /\ pack0.manifest = 0 => \E m \in s .. t : pack0 = Sources!Whole(history[m].roots[r])
<1> DEFINE at(m) == history[m].roots[r]
<1>1. pack0 = [manifest |-> pack0.manifest, declared |-> pack0.declared, contents |-> pack0.contents,
               notice |-> pack0.notice, unlisted |-> pack0.unlisted]
  BY DEF Sources!Pack
<1>2. /\ DOMAIN pack0.contents \subseteq 1 .. FilesPerRoot
      /\ pack0.contents = [p \in DOMAIN pack0.contents |-> pack0.contents[p]]
  BY DEF Sources!Pack, Sources!Contents
<1>3. /\ 1 \in 1 .. Len(history) /\ s \in 1 .. Len(history) /\ t \in 1 .. Len(history) /\ Len(history) \in 1 .. Len(history)
  BY DEF Sound
<1>4. \A m \in s .. t :
        /\ \A p \in DOMAIN pack0.contents : pack0.contents[p] # 0 /\ pack0.contents[p] = at(m).policies[p]
        /\ pack0.manifest = at(m).manifest /\ pack0.notice = at(m).notice
        /\ pack0.unlisted = Sources!Unlisted(at(m), DOMAIN pack0.contents)
  <2> TAKE m \in s .. t
  <2>1. /\ TextsSeen(history, pack0.contents, r, 1, s) /\ TextsSeen(history, pack0.contents, r, t, Len(history))
        /\ ManifestSeen(history, pack0.manifest, r, 1, s) /\ ManifestSeen(history, pack0.manifest, r, t, Len(history))
        /\ NoticeSeen(history, pack0.notice, r, 1, s) /\ NoticeSeen(history, pack0.notice, r, t, Len(history))
        /\ UnlistedSeen(history, pack0.unlisted, pack0.contents, r, 1, s)
        /\ UnlistedSeen(history, pack0.unlisted, pack0.contents, r, t, Len(history))
    BY DEF Taken
  <2>9. ThereAt(history, r, 1, s, t, Len(history), m)
    BY <1>3, SeenTwice, Zenon
  <2>2. \A p \in DOMAIN pack0.contents : pack0.contents[p] # 0 /\ pack0.contents[p] = at(m).policies[p]
    BY <1>2, <2>1, <2>9, Zenon DEF ThereAt
  <2>3. pack0.manifest = at(m).manifest /\ pack0.notice = at(m).notice
    BY <2>1, <2>9, Zenon DEF ThereAt
  <2>4. pack0.unlisted = Sources!Unlisted(at(m), DOMAIN pack0.contents)
    BY <2>1, <2>9, Zenon DEF ThereAt
  <2> QED
    BY <2>2, <2>3, <2>4
<1>5. pack0.declared = Sources!Declaration(pack0.manifest)
      /\ (pack0.manifest # 0 => DOMAIN pack0.contents = Declares[pack0.manifest].members)
  BY DEF Taken, Obeyed
<1>6. ASSUME NEW m \in s .. t, Sources!Membership(at(m), at(m).manifest) = DOMAIN pack0.contents
      PROVE  pack0 = Sources!Whole(at(m))
  <2>1. Sources!TextsOf(at(m), DOMAIN pack0.contents) = pack0.contents
    BY <1>2, <1>4 DEF Sources!TextsOf
  <2>2. /\ pack0.declared = Sources!Declaration(at(m).manifest) /\ pack0.manifest = at(m).manifest
        /\ pack0.notice = at(m).notice /\ pack0.unlisted = Sources!Unlisted(at(m), DOMAIN pack0.contents)
    BY <1>4, <1>5
  <2>3. Sources!Whole(at(m)) = [manifest |-> at(m).manifest, declared |-> Sources!Declaration(at(m).manifest),
                                contents |-> Sources!TextsOf(at(m), DOMAIN pack0.contents),
                                notice |-> at(m).notice,
                                unlisted |-> Sources!Unlisted(at(m), DOMAIN pack0.contents)]
    BY <1>6 DEF Sources!Whole
  <2> QED
    BY <1>1, <2>1, <2>2, <2>3
<1>7. ASSUME pack0.manifest # 0, NEW m \in s .. t PROVE pack0 = Sources!Whole(at(m))
  <2>1. Sources!Membership(at(m), at(m).manifest) = DOMAIN pack0.contents
    BY <1>4, <1>5, <1>7 DEF Sources!Membership, Sources!Absent
  <2> QED
    BY <1>6, <2>1
<1>8. ASSUME pack0.manifest = 0 PROVE \E m \in s .. t : pack0 = Sources!Whole(at(m))
  <2>1. preview.manifest = 0
    <3>1. PICK k \in s .. t : preview.manifest = at(k).manifest
      BY DEF Previewed, ManifestSeen
    <3> QED
      BY <1>4, <1>8, <3>1
  <2>2. PICK m \in s .. t : at(m).manifest = 0 => DOMAIN preview.contents = Sources!Present(at(m))
    BY <2>1 DEF Previewed, AllListed
  <2>3. at(m).manifest = 0
    BY <1>4, <1>8
  <2>4. Sources!Membership(at(m), at(m).manifest) = DOMAIN pack0.contents
    BY <2>2, <2>3 DEF Sources!Membership, Sources!Absent
  <2> QED
    BY <1>6, <2>4
<1> QED
  BY <1>7, <1>8

(***************************************************************************)
(* The inductive invariant.                                                *)
(***************************************************************************)

\* How many directories are read, which of them is read now, and from which
\* moment on it may be.
Size == IF profiled THEN Roots ELSE 1
Place == Len(captured) + 1
Low == IF since = 0 THEN 1 ELSE since

Underway == step \in {"profile", "manifest", "list", "members", "directory"}

SourceTypes ==
    /\ past \in Seq(Moment) /\ Len(past) > 0 /\ profiled \in BOOLEAN /\ since \in 0 .. Len(past)
    /\ pass \in {"expected", "captured"}
    /\ taken \in Sources!Found /\ declared \in Sources!Declarations /\ members \subseteq 1 .. FilesPerRoot
    /\ contents \in Sources!Contents /\ notice \in Sources!Found
    /\ captured \in Seq(Sources!Pack)

HistoryInv == Steady(past) /\ (profiled => Forward(past))

\* How far a pass has come.
Progress ==
    /\ Underway => Len(captured) < Size
    /\ step \in {"captured", "waiting"} => Len(captured) = Size /\ pass = "captured"
    /\ step = "profile" => profiled /\ captured = <<>>
    /\ step \in {"members", "directory"} => DOMAIN contents \subseteq members
    /\ step = "directory" => DOMAIN contents = members
    /\ step = "waiting" => since = 0

\* The first pass has read what was there since the request, or since the lock.
Previewing ==
    pass = "expected" /\ Underway =>
        /\ profiled /\ step # "profile" => ProfileSeen(past, selected, Low, Len(past))
        /\ \A r \in DOMAIN captured : Previewed(past, captured[r], r, Low, Len(past))
        /\ step \in {"list", "members", "directory"} => ManifestSeen(past, taken, Place, Low, Len(past))
        /\ step \in {"members", "directory"} =>
             /\ TextsSeen(past, contents, Place, Low, Len(past))
             /\ AllListed(past, taken, members, Place, Low, Len(past))

\* The second pass began at the moment t, when the first had ended: with the
\* profile or, where there is none, with the manifest.
Began(t) ==
    /\ profiled => ProfileSeen(past, expected.profile, Low, t)
    /\ Len(expected.packs) = Size
    /\ \A r \in 1 .. Size : Previewed(past, expected.packs[r], r, Low, t)
    /\ profiled /\ step # "profile" => selected = past[t].profile
    /\ ~profiled /\ step # "manifest" =>
         past[t].roots[1].manifest = IF captured = <<>> THEN taken ELSE captured[1].manifest

\* And what it has read was there from then on.
Capturing(t) ==
    /\ \A r \in DOMAIN captured : Taken(past, profiled, captured[r], r, t, Len(past))
    /\ step \in {"list", "members", "directory"} => ManifestSeen(past, taken, Place, t, Len(past))
    /\ step \in {"members", "directory"} =>
         TextsSeen(past, contents, Place, t, Len(past)) /\ Obeyed(profiled, taken, declared, members)
    /\ step = "directory" => NoticeSeen(past, notice, Place, t, Len(past))

SecondPass ==
    pass = "captured" /\ (Underway \/ step = "captured") => \E t \in Low .. Len(past) : Began(t) /\ Capturing(t)

\* The first capture was read before the lock was acquired.
FirstCapture ==
    step = "waiting" \/ (since # 0 /\ step # "refused") =>
        LET last == IF since = 0 THEN Len(past) ELSE since
        IN  /\ profiled => ProfileSeen(past, snapshot.profile, 1, last)
            /\ Len(snapshot.packs) = Size
            /\ \A r \in 1 .. Size : Taken(past, profiled, snapshot.packs[r], r, 1, last)

SourceInv ==
    /\ SourceTypes /\ HistoryInv /\ Progress /\ Previewing /\ SecondPass /\ FirstCapture
    /\ Sources!CapturedTogether /\ Sources!PublishedIsFresh

(***************************************************************************)
(* Edits.                                                                  *)
(***************************************************************************)

\* The text that a file has next: the one it has, or one it never had.
Proper(texts, n, text) ==
    \/ text = texts[n]
    \/ /\ \A k \in 1 .. n : texts[k] # text
       /\ texts[n] = 0 => \A k \in 1 .. n : texts[k] = 0

Follows(history, now) ==
    /\ \A r \in 1 .. Roots :
        /\ Proper(ManifestTexts(history, r), Len(history), now.roots[r].manifest)
        /\ Proper(NoticeTexts(history, r), Len(history), now.roots[r].notice)
        /\ \A p \in 1 .. FilesPerRoot : Proper(PolicyTexts(history, r, p), Len(history), now.roots[r].policies[p])
    /\ \/ now.profile = history[Len(history)].profile
       \/ now.profile \in Choices /\ now.profile.edition = history[Len(history)].profile.edition + 1

LEMMA Appended ==
    ASSUME NEW history \in Seq(Moment), NEW now \in Moment
    PROVE  /\ Append(history, now) \in Seq(Moment) /\ Len(Append(history, now)) = Len(history) + 1
           /\ Len(history) \in Nat
           /\ \A k \in 1 .. Len(history) : Append(history, now)[k] = history[k]
           /\ Append(history, now)[Len(history) + 1] = now
OBVIOUS

LEMMA Continued ==
    ASSUME NEW n \in Nat \ {0}, NEW texts, NEW more,
           DOMAIN texts = 1 .. n, DOMAIN more = 1 .. n + 1, \A k \in 1 .. n : more[k] = texts[k],
           NeverBack(texts), Proper(texts, n, more[n + 1])
    PROVE  NeverBack(more)
BY AnotherText, Zenon DEF Proper

LEMMA StaysSteady ==
    ASSUME NEW history \in Seq(Moment), Len(history) > 0, NEW now \in Moment, Steady(history), Follows(history, now)
    PROVE  Steady(Append(history, now))
<1> DEFINE later == Append(history, now)  n == Len(history)
<1>0. n \in Nat \ {0} /\ Len(later) = n + 1 /\ (\A k \in 1 .. n : later[k] = history[k]) /\ later[n + 1] = now
  BY Appended
<1> HIDE DEF later, n
<1>n. n = Len(history) /\ later = Append(history, now)
  BY DEF n, later
<1>1. ASSUME NEW r \in 1 .. Roots PROVE NeverBack(ManifestTexts(later, r))
  <2> DEFINE texts == ManifestTexts(history, r)  more == ManifestTexts(later, r)
  <2>1. /\ DOMAIN texts = 1 .. n /\ DOMAIN more = 1 .. n + 1 /\ \A k \in 1 .. n : more[k] = texts[k]
        /\ more[n + 1] = now.roots[r].manifest
    BY <1>0, <1>n DEF ManifestTexts
  <2>2. NeverBack(texts) /\ Proper(texts, n, now.roots[r].manifest)
    BY <1>n DEF Steady, Follows
  <2> HIDE DEF texts, more
  <2>3. NeverBack(more)
    BY <1>0, <2>1, <2>2, Continued
  <2> QED
    BY <2>3 DEF more
<1>2. ASSUME NEW r \in 1 .. Roots PROVE NeverBack(NoticeTexts(later, r))
  <2> DEFINE texts == NoticeTexts(history, r)  more == NoticeTexts(later, r)
  <2>1. /\ DOMAIN texts = 1 .. n /\ DOMAIN more = 1 .. n + 1 /\ \A k \in 1 .. n : more[k] = texts[k]
        /\ more[n + 1] = now.roots[r].notice
    BY <1>0, <1>n DEF NoticeTexts
  <2>2. NeverBack(texts) /\ Proper(texts, n, now.roots[r].notice)
    BY <1>n DEF Steady, Follows
  <2> HIDE DEF texts, more
  <2>3. NeverBack(more)
    BY <1>0, <2>1, <2>2, Continued
  <2> QED
    BY <2>3 DEF more
<1>3. ASSUME NEW r \in 1 .. Roots, NEW p \in 1 .. FilesPerRoot PROVE NeverBack(PolicyTexts(later, r, p))
  <2> DEFINE texts == PolicyTexts(history, r, p)  more == PolicyTexts(later, r, p)
  <2>1. /\ DOMAIN texts = 1 .. n /\ DOMAIN more = 1 .. n + 1 /\ \A k \in 1 .. n : more[k] = texts[k]
        /\ more[n + 1] = now.roots[r].policies[p]
    BY <1>0, <1>n DEF PolicyTexts
  <2>2. NeverBack(texts) /\ Proper(texts, n, now.roots[r].policies[p])
    BY <1>n DEF Steady, Follows
  <2> HIDE DEF texts, more
  <2>3. NeverBack(more)
    BY <1>0, <2>1, <2>2, Continued
  <2> QED
    BY <2>3 DEF more
<1> QED
  BY <1>1, <1>2, <1>3, <1>n DEF Steady

LEMMA StaysForward ==
    ASSUME NEW history \in Seq(Moment), Len(history) > 0, NEW now \in Moment, Forward(history), Follows(history, now)
    PROVE  Forward(Append(history, now))
<1> DEFINE later == Append(history, now)  n == Len(history)
<1>0. n \in Nat \ {0} /\ Len(later) = n + 1 /\ (\A k \in 1 .. n : later[k] = history[k]) /\ later[n + 1] = now
  BY Appended
<1>1. \/ now.profile = history[n].profile
      \/ now.profile \in Choices /\ now.profile.edition = history[n].profile.edition + 1
  BY DEF Follows
<1> HIDE DEF later
<1>2. SUFFICES ASSUME NEW i \in 1 .. n + 1, NEW j \in 1 .. n + 1, i <= j
               PROVE  /\ later[i].profile \in Choices
                      /\ later[i].profile.edition <= later[j].profile.edition
                      /\ later[i].profile.edition = later[j].profile.edition => later[i].profile = later[j].profile
  BY <1>0 DEF Forward, later
<1>3. history[n].profile \in Choices /\ history[n].profile.edition \in Nat
  BY <1>0 DEF Forward, Choices
<1>4. CASE j \in 1 .. n
  BY <1>0, <1>2, <1>4 DEF Forward
<1>5. CASE j = n + 1 /\ i \in 1 .. n
  <2>1. /\ history[i].profile \in Choices
        /\ history[i].profile.edition <= history[n].profile.edition
        /\ history[i].profile.edition = history[n].profile.edition => history[i].profile = history[n].profile
    BY <1>0, <1>5 DEF Forward
  <2>2. history[i].profile.edition \in Nat
    BY <2>1 DEF Choices
  <2> QED
    BY <1>0, <1>1, <1>3, <1>5, <2>1, <2>2
<1>6. CASE i = n + 1 /\ j = n + 1
  <2>1. now.profile.edition \in Nat /\ now.profile \in Choices
    BY <1>1, <1>3 DEF Choices
  <2> QED
    BY <1>0, <1>6, <2>1
<1> QED
  BY <1>4, <1>5, <1>6, <1>2, <1>0

LEMMA RootsAreSome == Roots \in Nat \ {0} /\ FilesPerRoot \in Nat \ {0} /\ MaxText \in Nat \ {0}
BY PartsAssumption DEF Sources!SourcesAssumption

LEMMA SourceWords == Sources!Absent = 0 /\ Sources!Found = 0 .. MaxText /\ Sources!Texts = 1 .. MaxText
BY RootsAreSome DEF Sources!Absent, Sources!Found, Sources!Texts

LEMMA NowIsAMoment ==
    ASSUME SourceTypes
    PROVE  /\ Len(past) \in Nat \ {0} /\ Len(past) \in DOMAIN past /\ DOMAIN past = 1 .. Len(past)
           /\ Sources!Now = past[Len(past)] /\ Sources!Now \in Moment
           /\ \A r \in 1 .. Roots : Sources!Now.roots[r] \in Sources!Directory
           /\ Sources!Now.roots \in Layouts
           /\ \A k \in 1 .. Len(past) : past[k] \in Moment
<1>1. past \in Seq(Moment) /\ Len(past) > 0
  BY DEF SourceTypes
<1>2. Len(past) \in Nat \ {0} /\ DOMAIN past = 1 .. Len(past) /\ \A k \in 1 .. Len(past) : past[k] \in Moment
  BY <1>1
<1>3. Sources!Now = past[Len(past)] /\ Sources!Now \in Moment
  BY <1>2 DEF Sources!Now
<1>4. Sources!Now.roots \in Layouts
  BY <1>3 DEF Moment
<1>5. \A r \in 1 .. Roots : Sources!Now.roots[r] \in Sources!Directory
  BY <1>4 DEF Layouts
<1> QED
  BY <1>2, <1>3, <1>4, <1>5

\* A text of Fresh is one that Proper admits.
LEMMA FreshIsProper ==
    ASSUME SourceTypes, NEW texts, NEW text, Sources!Fresh(text, texts)
    PROVE  Proper(texts, Len(past), text)
BY NowIsAMoment DEF Sources!Fresh, Proper, Sources!Absent

Unmoved ==
    UNCHANGED <<profiled, step, pass, selected, taken, declared, members, contents, notice, captured, expected,
                snapshot, since>>

LEMMA PolicyEdit ==
    ASSUME SourceTypes, Sources!EditPolicy
    PROVE  \E now \in Moment : Sources!Change(now) /\ Follows(past, now)
<1>1. PICK r \in Sources!Selection, p \in 1 .. FilesPerRoot, text \in Sources!Texts \cup {Sources!Absent} :
        /\ Sources!Fresh(text, [k \in DOMAIN past |-> past[k].roots[r].policies[p]])
        /\ Sources!Change([Sources!Now EXCEPT !.roots[r].policies[p] = text])
  BY DEF Sources!EditPolicy
<1>2. r \in 1 .. Roots
  BY RootsAreSome DEF Sources!Selection
<1> DEFINE now == [Sources!Now EXCEPT !.roots[r].policies[p] = text]
           here == Sources!Now.roots[r]
           there == [here EXCEPT !.policies[p] = text]
<1>3. text \in Sources!Found
  BY <1>1, SourceWords, RootsAreSome
<1>4. Sources!Now \in Moment /\ here \in Sources!Directory /\ Sources!Now.roots \in Layouts
  BY NowIsAMoment, <1>2
<1>5. there \in Sources!Directory
  BY <1>3, <1>4 DEF Sources!Directory
<1>6. now = [Sources!Now EXCEPT !.roots = [@ EXCEPT ![r] = there]]
  OBVIOUS
<1>7. there.manifest = here.manifest /\ there.notice = here.notice
      /\ \A q \in 1 .. FilesPerRoot : there.policies[q] = IF q = p THEN text ELSE here.policies[q]
  BY <1>4 DEF Sources!Directory
<1>8. /\ now.profile = Sources!Now.profile /\ now.roots = [Sources!Now.roots EXCEPT ![r] = there]
      /\ now \in Moment
  <2> HIDE DEF there, now
  <2> QED
    BY <1>2, <1>4, <1>5, <1>6 DEF Moment, Layouts
<1> HIDE DEF there, now
<1>9. \A s \in 1 .. Roots : now.roots[s] = IF s = r THEN there ELSE Sources!Now.roots[s]
  BY <1>4, <1>8 DEF Layouts
<1>10. ASSUME NEW s \in 1 .. Roots
       PROVE  /\ Proper(ManifestTexts(past, s), Len(past), now.roots[s].manifest)
              /\ Proper(NoticeTexts(past, s), Len(past), now.roots[s].notice)
  BY <1>7, <1>9, NowIsAMoment DEF here, Proper, ManifestTexts, NoticeTexts
<1>11. ASSUME NEW s \in 1 .. Roots, NEW q \in 1 .. FilesPerRoot
       PROVE  Proper(PolicyTexts(past, s, q), Len(past), now.roots[s].policies[q])
  <2>1. CASE s = r /\ q = p
    <3>1. PolicyTexts(past, s, q) = [k \in DOMAIN past |-> past[k].roots[r].policies[p]]
      BY <2>1, NowIsAMoment DEF PolicyTexts
    <3>2. now.roots[s].policies[q] = text
      BY <1>7, <1>9, <2>1
    <3> QED
      BY <1>1, <3>1, <3>2, FreshIsProper
  <2>2. CASE ~(s = r /\ q = p)
    <3>1. now.roots[s].policies[q] = Sources!Now.roots[s].policies[q]
      BY <1>7, <1>9, <2>2
    <3> QED
      BY <3>1, NowIsAMoment DEF Proper, PolicyTexts
  <2> QED
    BY <2>1, <2>2
<1>12. Follows(past, now)
  BY <1>8, <1>10, <1>11, NowIsAMoment DEF Follows
<1> QED
  BY <1>1, <1>8, <1>12 DEF now

LEMMA ManifestEdit ==
    ASSUME SourceTypes, Sources!EditManifest
    PROVE  \E now \in Moment : Sources!Change(now) /\ Follows(past, now)
<1>1. PICK r \in Sources!Selection, text \in Sources!Texts \cup {Sources!Absent} :
        /\ Sources!Fresh(text, [k \in DOMAIN past |-> past[k].roots[r].manifest])
        /\ Sources!Change([Sources!Now EXCEPT !.roots[r].manifest = text])
  BY DEF Sources!EditManifest
<1>2. r \in 1 .. Roots
  BY RootsAreSome DEF Sources!Selection
<1> DEFINE now == [Sources!Now EXCEPT !.roots[r].manifest = text]
           here == Sources!Now.roots[r]
           there == [here EXCEPT !.manifest = text]
<1>3. text \in Sources!Found
  BY <1>1, SourceWords, RootsAreSome
<1>4. Sources!Now \in Moment /\ here \in Sources!Directory /\ Sources!Now.roots \in Layouts
  BY NowIsAMoment, <1>2
<1>5. there \in Sources!Directory
  BY <1>3, <1>4 DEF Sources!Directory
<1>6. now = [Sources!Now EXCEPT !.roots = [@ EXCEPT ![r] = there]]
  OBVIOUS
<1>7. there.manifest = text /\ there.notice = here.notice /\ there.policies = here.policies
  BY <1>4 DEF Sources!Directory
<1>8. /\ now.profile = Sources!Now.profile /\ now.roots = [Sources!Now.roots EXCEPT ![r] = there]
      /\ now \in Moment
  <2> HIDE DEF there, now
  <2> QED
    BY <1>2, <1>4, <1>5, <1>6 DEF Moment, Layouts
<1> HIDE DEF there, now
<1>9. \A s \in 1 .. Roots : now.roots[s] = IF s = r THEN there ELSE Sources!Now.roots[s]
  BY <1>4, <1>8 DEF Layouts
<1>10. ASSUME NEW s \in 1 .. Roots
       PROVE  /\ Proper(NoticeTexts(past, s), Len(past), now.roots[s].notice)
              /\ \A q \in 1 .. FilesPerRoot : Proper(PolicyTexts(past, s, q), Len(past), now.roots[s].policies[q])
  BY <1>7, <1>9, NowIsAMoment DEF here, Proper, PolicyTexts, NoticeTexts
<1>11. ASSUME NEW s \in 1 .. Roots
       PROVE  Proper(ManifestTexts(past, s), Len(past), now.roots[s].manifest)
  <2>1. CASE s = r
    <3>1. ManifestTexts(past, s) = [k \in DOMAIN past |-> past[k].roots[r].manifest]
      BY <2>1, NowIsAMoment DEF ManifestTexts
    <3>2. now.roots[s].manifest = text
      BY <1>7, <1>9, <2>1
    <3> QED
      BY <1>1, <3>1, <3>2, FreshIsProper
  <2>2. CASE s # r
    <3>1. now.roots[s].manifest = Sources!Now.roots[s].manifest
      BY <1>9, <2>2
    <3> QED
      BY <3>1, NowIsAMoment DEF Proper, ManifestTexts
  <2> QED
    BY <2>1, <2>2
<1>12. Follows(past, now)
  BY <1>8, <1>10, <1>11, NowIsAMoment DEF Follows
<1> QED
  BY <1>1, <1>8, <1>12 DEF now

LEMMA NoticeEdit ==
    ASSUME SourceTypes, Sources!EditNotice
    PROVE  \E now \in Moment : Sources!Change(now) /\ Follows(past, now)
<1>1. PICK r \in Sources!Selection, text \in Sources!Texts \cup {Sources!Absent} :
        /\ Sources!Fresh(text, [k \in DOMAIN past |-> past[k].roots[r].notice])
        /\ Sources!Change([Sources!Now EXCEPT !.roots[r].notice = text])
  BY DEF Sources!EditNotice
<1>2. r \in 1 .. Roots
  BY RootsAreSome DEF Sources!Selection
<1> DEFINE now == [Sources!Now EXCEPT !.roots[r].notice = text]
           here == Sources!Now.roots[r]
           there == [here EXCEPT !.notice = text]
<1>3. text \in Sources!Found
  BY <1>1, SourceWords, RootsAreSome
<1>4. Sources!Now \in Moment /\ here \in Sources!Directory /\ Sources!Now.roots \in Layouts
  BY NowIsAMoment, <1>2
<1>5. there \in Sources!Directory
  BY <1>3, <1>4 DEF Sources!Directory
<1>6. now = [Sources!Now EXCEPT !.roots = [@ EXCEPT ![r] = there]]
  OBVIOUS
<1>7. there.manifest = here.manifest /\ there.notice = text /\ there.policies = here.policies
  BY <1>4 DEF Sources!Directory
<1>8. /\ now.profile = Sources!Now.profile /\ now.roots = [Sources!Now.roots EXCEPT ![r] = there]
      /\ now \in Moment
  <2> HIDE DEF there, now
  <2> QED
    BY <1>2, <1>4, <1>5, <1>6 DEF Moment, Layouts
<1> HIDE DEF there, now
<1>9. \A s \in 1 .. Roots : now.roots[s] = IF s = r THEN there ELSE Sources!Now.roots[s]
  BY <1>4, <1>8 DEF Layouts
<1>10. ASSUME NEW s \in 1 .. Roots
       PROVE  /\ Proper(ManifestTexts(past, s), Len(past), now.roots[s].manifest)
              /\ \A q \in 1 .. FilesPerRoot : Proper(PolicyTexts(past, s, q), Len(past), now.roots[s].policies[q])
  BY <1>7, <1>9, NowIsAMoment DEF here, Proper, PolicyTexts, ManifestTexts
<1>11. ASSUME NEW s \in 1 .. Roots
       PROVE  Proper(NoticeTexts(past, s), Len(past), now.roots[s].notice)
  <2>1. CASE s = r
    <3>1. NoticeTexts(past, s) = [k \in DOMAIN past |-> past[k].roots[r].notice]
      BY <2>1, NowIsAMoment DEF NoticeTexts
    <3>2. now.roots[s].notice = text
      BY <1>7, <1>9, <2>1
    <3> QED
      BY <1>1, <3>1, <3>2, FreshIsProper
  <2>2. CASE s # r
    <3>1. now.roots[s].notice = Sources!Now.roots[s].notice
      BY <1>9, <2>2
    <3> QED
      BY <3>1, NowIsAMoment DEF Proper, NoticeTexts
  <2> QED
    BY <2>1, <2>2
<1>12. Follows(past, now)
  BY <1>8, <1>10, <1>11, NowIsAMoment DEF Follows
<1> QED
  BY <1>1, <1>8, <1>12 DEF now

LEMMA ProfileEdit ==
    ASSUME SourceTypes, HistoryInv, Sources!EditProfile
    PROVE  \E now \in Moment : Sources!Change(now) /\ Follows(past, now)
<1>1. PICK pins \in {Sources!Now.profile.pins}
                      \cup (IF Sources!Pinnable(Sources!Now.roots) THEN {Sources!PinsOf(Sources!Now.roots)} ELSE {}) :
        Sources!Change([Sources!Now EXCEPT !.profile = [edition |-> Sources!Now.profile.edition + 1, pins |-> pins]])
  BY DEF Sources!EditProfile
<1> DEFINE chosen == [edition |-> Sources!Now.profile.edition + 1, pins |-> pins]
           now == [Sources!Now EXCEPT !.profile = chosen]
<1>2. Sources!Now \in Moment /\ Sources!Now.roots \in Layouts /\ Sources!Now = past[Len(past)] /\ Len(past) \in Nat \ {0}
  BY NowIsAMoment
<1>3. Sources!Now.profile \in Choices
  BY <1>2 DEF HistoryInv, Forward, Sources!EditProfile
<1>4. chosen \in Choices /\ chosen.edition = Sources!Now.profile.edition + 1
  BY <1>1, <1>2, <1>3 DEF Choices
<1> HIDE DEF chosen
<1>5. now \in Moment /\ now.profile = chosen /\ now.roots = Sources!Now.roots
  BY <1>2, <1>4 DEF Moment
<1> HIDE DEF now
<1>6. \A s \in 1 .. Roots :
        /\ Proper(ManifestTexts(past, s), Len(past), now.roots[s].manifest)
        /\ Proper(NoticeTexts(past, s), Len(past), now.roots[s].notice)
        /\ \A q \in 1 .. FilesPerRoot : Proper(PolicyTexts(past, s, q), Len(past), now.roots[s].policies[q])
  BY <1>2, <1>5 DEF Proper, ManifestTexts, NoticeTexts, PolicyTexts
<1>7. Follows(past, now)
  BY <1>2, <1>4, <1>5, <1>6 DEF Follows
<1> QED
  BY <1>1, <1>5, <1>7 DEF now, chosen

\* The positions of the present in a history that goes on.
LEMMA LowIsThere ==
    ASSUME SourceTypes
    PROVE  /\ Len(past) \in Nat /\ Low \in 1 .. Len(past) /\ since \in Nat /\ Size \in Nat \ {0} /\ Size <= Roots
           /\ Sources!Selection = 1 .. Size /\ Len(captured) \in Nat /\ Place = Sources!Root
           /\ DOMAIN captured = 1 .. Len(captured)
<1>1. past \in Seq(Moment) /\ Len(past) > 0 /\ since \in 0 .. Len(past) /\ captured \in Seq(Sources!Pack)
  BY DEF SourceTypes
<1>2. Len(past) \in Nat /\ since \in Nat /\ Len(captured) \in Nat /\ DOMAIN captured = 1 .. Len(captured)
  BY <1>1
<1>3. Low \in 1 .. Len(past)
  BY <1>1, <1>2 DEF Low
<1>4. Size \in Nat \ {0} /\ Size <= Roots /\ Sources!Selection = 1 .. Size
  <2>1. {1} = 1 .. 1
    OBVIOUS
  <2>2. CASE profiled
    BY RootsAreSome, <2>2 DEF Size, Sources!Selection
  <2>3. CASE ~profiled
    <3>1. Size = 1 /\ Sources!Selection = {1}
      BY <2>3 DEF Size, Sources!Selection
    <3> QED
      BY RootsAreSome, <2>1, <3>1
  <2> QED
    BY <2>2, <2>3
<1>5. Place = Sources!Root
  BY DEF Place, Sources!Root
<1> QED
  BY <1>2, <1>3, <1>4, <1>5

\* An edit takes nothing back of what has been read.
LEMMA EditKeeps ==
    ASSUME SourceInv, NEW now \in Moment, Sources!Change(now), Follows(past, now)
    PROVE  SourceInv'
<1> DEFINE n == Len(past)
<1> USE DEF SourceInv
<1>0. /\ past' = Append(past, now) /\ step \notin {"published", "refused"}
      /\ profiled' = profiled /\ step' = step /\ pass' = pass /\ selected' = selected /\ taken' = taken
      /\ declared' = declared /\ members' = members /\ contents' = contents /\ notice' = notice
      /\ captured' = captured /\ expected' = expected /\ snapshot' = snapshot /\ since' = since
  BY DEF Sources!Change, Sources!Finished, Sources!directory
<1>1. /\ past' \in Seq(Moment) /\ Len(past') = n + 1 /\ n \in Nat \ {0} /\ \A k \in 1 .. n : past'[k] = past[k]
  BY <1>0, NowIsAMoment, Appended DEF SourceTypes
<1>2. Low \in 1 .. n /\ since \in 0 .. n /\ Place \in Nat /\ Size \in Nat /\ Low' = Low /\ Place' = Place /\ Size' = Size
      /\ Underway' = Underway
  BY <1>0, LowIsThere DEF Low, Place, Size, Underway, SourceTypes
<1>3. SourceTypes'
  BY <1>0, <1>1, <1>2 DEF SourceTypes
<1>4. HistoryInv'
  BY <1>0, <1>1, StaysSteady, StaysForward DEF HistoryInv, SourceTypes
<1>5. Progress'
  BY <1>0, <1>2 DEF Progress
<1> HIDE DEF n
<1>n. n = Len(past)
  BY DEF n
<1>6. \A r, i, j : i \in 1 .. n /\ j \in i .. n =>
        /\ \A texts : TextsSeen(past, texts, r, i, j) => TextsSeen(past', texts, r, i, j) /\ TextsSeen(past', texts, r, i, n + 1)
        /\ \A text : ManifestSeen(past, text, r, i, j) => ManifestSeen(past', text, r, i, n + 1)
        /\ \A text : NoticeSeen(past, text, r, i, j) => NoticeSeen(past', text, r, i, n + 1)
        /\ \A text, some : AllListed(past, text, some, r, i, j) => AllListed(past', text, some, r, i, n + 1)
        /\ \A choice : ProfileSeen(past, choice, i, j) => ProfileSeen(past', choice, i, j) /\ ProfileSeen(past', choice, i, n + 1)
        /\ \A pack0 : Previewed(past, pack0, r, i, j) => Previewed(past', pack0, r, i, j) /\ Previewed(past', pack0, r, i, n + 1)
        /\ \A bound, pack0 : Taken(past, bound, pack0, r, i, j)
                => Taken(past', bound, pack0, r, i, j) /\ Taken(past', bound, pack0, r, i, n + 1)
  <2> TAKE r, i, j
  <2> HAVE i \in 1 .. n /\ j \in i .. n
  <2>1. /\ i \in Nat /\ j \in Nat /\ n + 1 \in Nat /\ i <= i /\ j <= j /\ j <= n + 1
        /\ \A k \in i .. j : past'[k] = past[k]
    BY <1>1
  <2> QED
    BY <2>1, SeenStays, ZenonT(30)
<1>7. Previewing'
  <2> SUFFICES ASSUME pass = "expected", Underway
               PROVE  /\ profiled /\ step # "profile" => ProfileSeen(past', selected, Low, n + 1)
                      /\ \A r \in DOMAIN captured : Previewed(past', captured[r], r, Low, n + 1)
                      /\ step \in {"list", "members", "directory"} => ManifestSeen(past', taken, Place, Low, n + 1)
                      /\ step \in {"members", "directory"} =>
                           /\ TextsSeen(past', contents, Place, Low, n + 1)
                           /\ AllListed(past', taken, members, Place, Low, n + 1)
    BY <1>0, <1>1, <1>2, <1>n DEF Previewing
  <2>1. Low \in 1 .. n /\ n \in Low .. n
    BY <1>1, <1>2
  <2> QED
    BY <1>6, <1>n, <2>1 DEF Previewing
<1>8. SecondPass'
  <2> SUFFICES ASSUME pass = "captured", Underway \/ step = "captured"
               PROVE  \E t \in Low .. n + 1 : (Began(t) /\ Capturing(t))'
    BY <1>0, <1>1, <1>2, <1>n DEF SecondPass
  <2>1. PICK t \in Low .. n : Began(t) /\ Capturing(t)
    BY <1>n DEF SecondPass
  <2>2. t \in 1 .. n /\ t \in Low .. n /\ n \in t .. n /\ past'[t] = past[t]
    BY <1>1, <1>2
  <2>3. Began(t)'
    BY <1>0, <1>2, <1>6, <2>1, <2>2 DEF Began
  <2>4. Capturing(t)'
    <3>1. (\A r \in DOMAIN captured : Taken(past, profiled, captured[r], r, t, Len(past)))'
      <4>1. \A r \in DOMAIN captured : Taken(past, profiled, captured[r], r, t, n)
        BY <1>n, <2>1 DEF Capturing
      <4> QED
        BY ZenonT(30), <1>0, <1>1, <1>6, <2>2, <4>1
    <3>2. (step \in {"list", "members", "directory"} => ManifestSeen(past, taken, Place, t, Len(past)))'
      <4>1. step \in {"list", "members", "directory"} => ManifestSeen(past, taken, Place, t, n)
        BY <1>n, <2>1 DEF Capturing
      <4> QED
        BY <1>0, <1>1, <1>2, <1>6, <2>2, <4>1
    <3>3. (step \in {"members", "directory"} =>
              TextsSeen(past, contents, Place, t, Len(past)) /\ Obeyed(profiled, taken, declared, members))'
      <4>1. step \in {"members", "directory"} =>
              TextsSeen(past, contents, Place, t, n) /\ Obeyed(profiled, taken, declared, members)
        BY <1>n, <2>1 DEF Capturing
      <4> QED
        BY <1>0, <1>1, <1>2, <1>6, <2>2, <4>1
    <3>4. (step = "directory" => NoticeSeen(past, notice, Place, t, Len(past)))'
      <4>1. step = "directory" => NoticeSeen(past, notice, Place, t, n)
        BY <1>n, <2>1 DEF Capturing
      <4> QED
        BY <1>0, <1>1, <1>2, <1>6, <2>2, <4>1
    <3> QED
      BY <3>1, <3>2, <3>3, <3>4 DEF Capturing
  <2> QED
    BY <1>2, <2>2, <2>3, <2>4
<1>9. FirstCapture'
  <2> DEFINE last == IF since = 0 THEN n ELSE since
             later == IF since = 0 THEN n + 1 ELSE since
  <2>1. 1 \in 1 .. n /\ last \in 1 .. n
    BY <1>1, <1>2
  <2>2. later = last \/ later = n + 1
    OBVIOUS
  <2> SUFFICES ASSUME step = "waiting" \/ (since # 0 /\ step # "refused")
               PROVE  /\ profiled => ProfileSeen(past', snapshot.profile, 1, later)
                      /\ Len(snapshot.packs) = Size
                      /\ \A r \in 1 .. Size : Taken(past', profiled, snapshot.packs[r], r, 1, later)
    BY <1>0, <1>1, <1>2, <1>n DEF FirstCapture
  <2>3. /\ profiled => ProfileSeen(past, snapshot.profile, 1, last)
        /\ Len(snapshot.packs) = Size
        /\ \A r \in 1 .. Size : Taken(past, profiled, snapshot.packs[r], r, 1, last)
    BY <1>n DEF FirstCapture
  <2> HIDE DEF last, later
  <2> QED
    BY <1>6, <2>1, <2>2, <2>3
<1>10. Sources!CapturedTogether'
  <2> SUFFICES ASSUME step = "waiting"
               PROVE  \E k \in 1 .. n + 1 :
                        /\ profiled => snapshot.profile = past'[k].profile
                        /\ \A r \in Sources!Selection :
                            /\ ~profiled => snapshot.packs[r].manifest = past'[k].roots[r].manifest
                            /\ \A p \in DOMAIN snapshot.packs[r].contents :
                                snapshot.packs[r].contents[p] = past'[k].roots[r].policies[p]
    BY <1>0, <1>1, SMTT(30) DEF Sources!CapturedTogether, Sources!Selection
  <2>1. PICK k \in DOMAIN past :
            /\ profiled => snapshot.profile = past[k].profile
            /\ \A r \in Sources!Selection :
                /\ ~profiled => snapshot.packs[r].manifest = past[k].roots[r].manifest
                /\ \A p \in DOMAIN snapshot.packs[r].contents :
                    snapshot.packs[r].contents[p] = past[k].roots[r].policies[p]
    BY DEF Sources!CapturedTogether
  <2>2. k \in 1 .. n /\ k \in 1 .. n + 1 /\ past'[k] = past[k]
    BY <1>1, <1>n, NowIsAMoment
  <2> QED
    BY <2>1, <2>2
<1>11. Sources!PublishedIsFresh'
  BY <1>0 DEF Sources!PublishedIsFresh
<1> QED
  BY <1>3, <1>4, <1>5, <1>7, <1>8, <1>9, <1>10, <1>11

LEMMA EditsKeep ==
    ASSUME SourceInv, Sources!Edit
    PROVE  SourceInv'
<1>1. \E now \in Moment : Sources!Change(now) /\ Follows(past, now)
  BY PolicyEdit, ManifestEdit, NoticeEdit, ProfileEdit DEF Sources!Edit, SourceInv
<1> QED
  BY <1>1, EditKeeps

\* A request that is refused claims nothing any more.
LEMMA RefusalKeeps ==
    ASSUME SourceInv, Sources!Refuse
    PROVE  SourceInv'
<1> USE DEF SourceInv, Sources!Refuse, Sources!directory
<1>1. SourceTypes'
  BY DEF SourceTypes
<1>2. HistoryInv' /\ Progress' /\ Previewing' /\ FirstCapture'
  BY DEF HistoryInv, Progress, Previewing, FirstCapture, Underway
<1>3. SecondPass'
  BY DEF SecondPass, Underway
<1>4. Sources!CapturedTogether' /\ Sources!PublishedIsFresh'
  BY DEF Sources!CapturedTogether, Sources!PublishedIsFresh
<1> QED
  BY <1>1, <1>2, <1>3, <1>4

(***************************************************************************)
(* Reading.                                                                *)
(***************************************************************************)

\* A step of a pass that is under way leaves alone what was captured before.
LEMMA CaptureStays ==
    ASSUME SourceInv, step # "refused", step' # "waiting", step' # "published",
           UNCHANGED <<past, profiled, since, snapshot>>
    PROVE  HistoryInv' /\ FirstCapture' /\ Sources!CapturedTogether' /\ Sources!PublishedIsFresh'
<1>1. HistoryInv'
  BY DEF SourceInv, HistoryInv
<1>2. FirstCapture'
  BY DEF SourceInv, FirstCapture, Size
<1>3. Sources!CapturedTogether' /\ Sources!PublishedIsFresh'
  BY DEF Sources!CapturedTogether, Sources!PublishedIsFresh
<1> QED
  BY <1>1, <1>2, <1>3

\* What is read now is there now.
LEMMA SeenNow ==
    ASSUME SourceTypes, NEW i \in 1 .. Len(past), NEW r
    PROVE  /\ ManifestSeen(past, Sources!Now.roots[r].manifest, r, i, Len(past))
           /\ NoticeSeen(past, Sources!Now.roots[r].notice, r, i, Len(past))
           /\ ProfileSeen(past, Sources!Now.profile, i, Len(past))
           /\ \A texts : UnlistedSeen(past, Sources!Unlisted(Sources!Now.roots[r], DOMAIN texts), texts, r, i, Len(past))
<1>1. Len(past) \in i .. Len(past) /\ Sources!Now = past[Len(past)]
  BY NowIsAMoment
<1> QED
  BY <1>1 DEF ManifestSeen, NoticeSeen, ProfileSeen, UnlistedSeen

\* The beginning of a second pass can be put at a later moment as long as it
\* has read nothing.
LEMMA SeenBefore ==
    ASSUME SourceTypes, NEW t \in Low .. Len(past)
    PROVE  /\ \A choice : ProfileSeen(past, choice, Low, t) => ProfileSeen(past, choice, Low, Len(past))
           /\ \A r, pack0 : Previewed(past, pack0, r, Low, t) => Previewed(past, pack0, r, Low, Len(past))
<1>1. /\ Low \in Nat /\ t \in Nat /\ Len(past) \in Nat /\ Low <= Low /\ t <= Len(past)
      /\ \A k \in Low .. t : past[k] = past[k]
  BY LowIsThere
<1> QED
  BY <1>1, SeenStays

LEMMA ReadProfileKeeps ==
    ASSUME SourceInv, Sources!ReadProfile
    PROVE  SourceInv'
<1> USE DEF SourceInv, Sources!ReadProfile, Sources!directory
<1>1. SourceTypes'
  BY DEF SourceTypes
<1>2. HistoryInv' /\ FirstCapture' /\ Sources!CapturedTogether' /\ Sources!PublishedIsFresh'
  BY CaptureStays
<1>3. Progress'
  BY DEF Progress, Underway, Size
<1>4. /\ captured = <<>> /\ captured' = <<>> /\ profiled /\ profiled' = profiled /\ DOMAIN captured' = {} /\ Underway
      /\ past' = past /\ Low' = Low /\ Size' = Size /\ selected' = Sources!Now.profile /\ Low \in 1 .. Len(past)
      /\ expected' = expected /\ pass' = pass
  BY LowIsThere DEF Progress, Low, Size, Underway
<1>5. Previewing'
  BY <1>4, SeenNow DEF Previewing
<1>6. SecondPass'
  <2> SUFFICES ASSUME pass = "captured"
               PROVE  \E t \in Low .. Len(past) : Began(t)' /\ Capturing(t)'
    BY <1>4 DEF SecondPass
  <2>1. PICK t \in Low .. Len(past) : Began(t)
    BY <1>4 DEF SecondPass
  <2>0. PICK n : n = Len(past)
    OBVIOUS
  <2>2. n \in Low .. Len(past) /\ n = Len(past) /\ Sources!Now = past[n]
    BY <1>4, <2>0, NowIsAMoment
  <2>3. Began(n)'
    BY <1>4, <2>1, <2>2, SeenBefore DEF Began
  <2>4. Capturing(n)'
    BY <1>4 DEF Capturing
  <2> QED
    BY <2>2, <2>3, <2>4
<1> QED
  BY <1>1, <1>2, <1>3, <1>5, <1>6

LEMMA ReadManifestKeeps ==
    ASSUME SourceInv, Sources!ReadManifest
    PROVE  SourceInv'
<1>0. CASE Sources!Refuse
  BY <1>0, RefusalKeeps
<1>1. SUFFICES ASSUME ~Sources!Refuse
               PROVE  SourceInv'
  BY <1>0
<1>2. /\ step = "manifest" /\ taken' = Sources!Here.manifest /\ step' = "list"
      /\ UNCHANGED <<past, profiled, pass, selected, declared, members, contents, notice, captured, expected, snapshot,
                     since>>
  BY <1>1 DEF Sources!ReadManifest
<1> USE DEF SourceInv
<1>3. /\ past' = past /\ Low' = Low /\ Size' = Size /\ Place' = Place /\ Low \in 1 .. Len(past) /\ Underway
      /\ Len(captured) < Size /\ Place = Sources!Root /\ Place \in 1 .. Roots
  BY <1>2, LowIsThere DEF Progress, Low, Size, Place, Underway
<1>4. taken' = Sources!Now.roots[Place].manifest /\ taken' \in Sources!Found
  BY <1>2, <1>3, NowIsAMoment DEF Sources!Here, Sources!Directory
<1>5. SourceTypes'
  BY <1>2, <1>4 DEF SourceTypes
<1>6. HistoryInv' /\ FirstCapture' /\ Sources!CapturedTogether' /\ Sources!PublishedIsFresh'
  BY <1>2, CaptureStays
<1>7. Progress'
  BY <1>2, <1>3 DEF Progress, Underway
<1>8. Previewing'
  BY <1>2, <1>3, <1>4, SeenNow DEF Previewing
<1>9. SecondPass'
  <2> SUFFICES ASSUME pass = "captured"
               PROVE  \E t \in Low .. Len(past) : Began(t)' /\ Capturing(t)'
    BY <1>2, <1>3 DEF SecondPass
  <2>1. PICK t \in Low .. Len(past) : Began(t) /\ Capturing(t)
    BY <1>3 DEF SecondPass
  <2>0. PICK n : n = Len(past)
    OBVIOUS
  <2>2. n \in Low .. Len(past) /\ n = Len(past) /\ n \in 1 .. n /\ t \in 1 .. n /\ Sources!Now = past[n]
    BY <1>3, <2>0, NowIsAMoment
  <2>3. CASE profiled
    <3>1. Began(t)'
      BY <1>2, <1>3, <2>1, <2>3 DEF Began
    <3>2. Capturing(t)'
      BY <1>2, <1>3, <1>4, <2>1, <2>2, SeenNow DEF Capturing
    <3> QED
      BY <3>1, <3>2
  <2>4. CASE ~profiled
    <3>1. captured = <<>> /\ Place = 1 /\ DOMAIN captured = {}
      BY <1>3, <2>4, LowIsThere DEF Size, Place, SourceTypes
    <3>2. Began(n)'
      BY <1>2, <1>3, <1>4, <2>1, <2>2, <2>4, <3>1, SeenBefore DEF Began
    <3>3. Capturing(n)'
      BY <1>2, <1>3, <1>4, <2>2, <3>1, SeenNow DEF Capturing
    <3> QED
      BY <2>2, <3>2, <3>3
  <2> QED
    BY <2>3, <2>4
<1> QED
  BY <1>5, <1>6, <1>7, <1>8, <1>9

\* What a manifest lists is policies.
LEMMA ListsPolicies ==
    ASSUME NEW d \in Sources!Directory, NEW text \in Sources!Found
    PROVE  Sources!Membership(d, text) \subseteq 1 .. FilesPerRoot
BY PartsAssumption, SourceWords, RootsAreSome
   DEF Sources!SourcesAssumption, Sources!Membership, Sources!Present, Sources!Absent, Sources!Texts

LEMMA NothingRead ==
    ASSUME NEW history, NEW r, NEW i, NEW j
    PROVE  DOMAIN <<>> = {} /\ <<>> \in Sources!Contents /\ TextsSeen(history, <<>>, r, i, j)
<1>1. DOMAIN <<>> = {}
  OBVIOUS
<1>2. <<>> \in [{} -> Sources!Texts]
  OBVIOUS
<1>3. <<>> \in Sources!Contents
  <2>1. {} \in SUBSET (1 .. FilesPerRoot)
    OBVIOUS
  <2> QED
    BY <1>2, <2>1 DEF Sources!Contents
<1> QED
  BY <1>1, <1>3 DEF TextsSeen

LEMMA ListMembersKeeps ==
    ASSUME SourceInv, Sources!ListMembers
    PROVE  SourceInv'
<1>0. CASE Sources!Refuse
  BY <1>0, RefusalKeeps
<1>1. SUFFICES ASSUME ~Sources!Refuse
               PROVE  SourceInv'
  BY <1>0
<1> DEFINE again == IF pass = "expected" /\ ~profiled /\ taken # Sources!Absent THEN taken ELSE Sources!Here.manifest
           some == Sources!Membership(Sources!Here, again)
           used == IF pass = "expected" /\ profiled THEN again ELSE taken
<1>2. /\ step = "list" /\ step' = "members"
      /\ ~(pass = "captured" /\ taken # Sources!Absent /\ Declares[taken].members # some)
      /\ ~(pass = "captured" /\ profiled /\ taken = Sources!Absent)
      /\ members' = some /\ declared' = Sources!Declaration(used) /\ contents' = <<>>
      /\ UNCHANGED <<past, profiled, pass, selected, taken, notice, captured, expected, snapshot, since>>
  BY <1>1 DEF Sources!ListMembers
<1> HIDE DEF some, used
<1> USE DEF SourceInv
<1>3. /\ past' = past /\ Low' = Low /\ Size' = Size /\ Place' = Place /\ Low \in 1 .. Len(past) /\ Underway
      /\ Len(captured) < Size /\ Place = Sources!Root /\ Place \in 1 .. Roots
  BY <1>2, LowIsThere DEF Progress, Low, Size, Place, Underway
<1>4. /\ Sources!Here = Sources!Now.roots[Place] /\ Sources!Here \in Sources!Directory
      /\ Sources!Here.manifest \in Sources!Found /\ taken \in Sources!Found
  BY <1>3, NowIsAMoment DEF Sources!Here, Sources!Directory, SourceTypes
<1>5. again \in Sources!Found /\ used \in Sources!Found
  BY <1>4 DEF used
<1>6. SourceTypes'
  <2>1. members' \subseteq 1 .. FilesPerRoot
    BY <1>2, <1>4, <1>5, ListsPolicies DEF some
  <2>2. declared' \in Sources!Declarations
    BY <1>2, <1>5 DEF Sources!Declarations
  <2>3. contents' \in Sources!Contents
    BY <1>2, NothingRead
  <2> QED
    BY <1>2, <2>1, <2>2, <2>3 DEF SourceTypes
<1>7. HistoryInv' /\ FirstCapture' /\ Sources!CapturedTogether' /\ Sources!PublishedIsFresh'
  BY <1>2, CaptureStays
<1>8. Progress'
  BY <1>2, <1>3, NothingRead DEF Progress, Underway
<1>9. \A i : TextsSeen(past, contents', Place, i, Len(past))
  BY <1>2, NothingRead
<1>10. Previewing'
  <2> SUFFICES ASSUME pass = "expected"
               PROVE  Previewing'
    BY <1>2 DEF Previewing
  <2>1. AllListed(past, taken, members', Place, Low, Len(past))
    <3>1. Len(past) \in Low .. Len(past) /\ Sources!Now = past[Len(past)]
      BY <1>3, NowIsAMoment
    <3>2. taken = 0 /\ Sources!Here.manifest = 0 => members' = Sources!Present(Sources!Here)
      BY <1>2 DEF some, Sources!Membership, Sources!Absent
    <3> QED
      BY <1>4, <3>1, <3>2 DEF AllListed
  <2> QED
    BY <1>2, <1>3, <1>9, <2>1 DEF Previewing
<1>11. SecondPass'
  <2> SUFFICES ASSUME pass = "captured"
               PROVE  \E t \in Low .. Len(past) : Began(t)' /\ Capturing(t)'
    BY <1>2, <1>3 DEF SecondPass
  <2>1. PICK t \in Low .. Len(past) : Began(t) /\ Capturing(t)
    BY <1>3 DEF SecondPass
  <2>2. Obeyed(profiled, taken, declared', members')
    BY <1>2 DEF Obeyed, used, Sources!Absent
  <2>3. Began(t)'
    BY <1>2, <1>3, <2>1 DEF Began
  <2>4. Capturing(t)'
    BY <1>2, <1>3, <1>9, <2>1, <2>2 DEF Capturing
  <2> QED
    BY <2>3, <2>4
<1> QED
  BY <1>6, <1>7, <1>8, <1>10, <1>11

\* Of some numbers one is the least.
LEMMA LeastNumber ==
    ASSUME NEW T, T \subseteq Nat, T # {}
    PROVE  \E x \in T : \A y \in T : x <= y
<1>1. PICK x \in T : \A y \in T : <<y, x>> \notin OpToRel(<, Nat)
  BY NatLessThanWellFounded, WFMin, Zenon
<1>2. \A y \in T : ~(y < x)
  BY <1>1 DEF OpToRel
<1> QED
  BY <1>2

LEMMA ReadMemberKeeps ==
    ASSUME SourceInv, Sources!ReadMember
    PROVE  SourceInv'
<1>0. CASE Sources!Refuse
  BY <1>0, RefusalKeeps
<1>1. SUFFICES ASSUME ~Sources!Refuse
               PROVE  SourceInv'
  BY <1>0
<1> DEFINE left == members \ DOMAIN contents
           p == CHOOSE q \in left : \A other \in left : q <= other
<1>2. /\ step = "members" /\ DOMAIN contents # members /\ Sources!Here.policies[p] # Sources!Absent
      /\ contents' = [q \in DOMAIN contents \cup {p} |-> IF q = p THEN Sources!Here.policies[p] ELSE contents[q]]
      /\ UNCHANGED <<past, profiled, step, pass, selected, taken, declared, members, notice, captured, expected,
                     snapshot, since>>
  BY <1>1 DEF Sources!ReadMember
<1> USE DEF SourceInv
<1>3. /\ past' = past /\ Low' = Low /\ Size' = Size /\ Place' = Place /\ Low \in 1 .. Len(past) /\ Underway
      /\ Len(captured) < Size /\ Place = Sources!Root /\ Place \in 1 .. Roots /\ step' = step
  BY <1>2, LowIsThere DEF Progress, Low, Size, Place, Underway
<1>4. Sources!Here = Sources!Now.roots[Place] /\ Sources!Here \in Sources!Directory
  BY <1>3, NowIsAMoment DEF Sources!Here
<1>5. p \in left
  <2>1. left \subseteq Nat /\ left # {}
    <3>1. members \subseteq 1 .. FilesPerRoot /\ DOMAIN contents \subseteq members
      BY <1>2 DEF Progress, SourceTypes
    <3>2. members \subseteq Nat
      BY <3>1, RootsAreSome
    <3>3. left # {}
      BY <1>2, <3>1, Zenon
    <3> QED
      BY <3>2, <3>3
  <2>2. \E q \in left : \A other \in left : q <= other
    BY <2>1, LeastNumber
  <2> HIDE DEF left
  <2> QED
    BY <2>2
<1> HIDE DEF p
<1>6. p \in 1 .. FilesPerRoot /\ p \in members /\ Sources!Here.policies[p] \in Sources!Texts
  <2>1. p \in 1 .. FilesPerRoot /\ p \in members
    BY <1>5 DEF SourceTypes
  <2> QED
    BY <1>2, <1>4, <2>1 DEF Sources!Directory, Sources!Found
<1>7. contents' \in Sources!Contents
  <2>1. PICK read \in SUBSET (1 .. FilesPerRoot) : contents \in [read -> Sources!Texts]
    BY DEF SourceTypes, Sources!Contents
  <2>2. contents' \in [read \cup {p} -> Sources!Texts] /\ read \cup {p} \in SUBSET (1 .. FilesPerRoot)
    BY <1>2, <1>6, <2>1
  <2> QED
    BY <2>2 DEF Sources!Contents
<1>8. SourceTypes'
  BY <1>2, <1>7 DEF SourceTypes
<1>9. HistoryInv' /\ FirstCapture' /\ Sources!CapturedTogether' /\ Sources!PublishedIsFresh'
  BY <1>2, CaptureStays
<1>10. Progress'
  <2>1. DOMAIN contents' \subseteq members
    BY <1>2, <1>6 DEF Progress
  <2> QED
    BY <1>2, <1>3, <2>1 DEF Progress, Underway
<1>11. ASSUME NEW i \in 1 .. Len(past), TextsSeen(past, contents, Place, i, Len(past))
       PROVE  TextsSeen(past, contents', Place, i, Len(past))
  <2>1. Len(past) \in i .. Len(past) /\ Sources!Now = past[Len(past)]
    BY NowIsAMoment
  <2>2. Sources!Here.policies[p] = past[Len(past)].roots[Place].policies[p] /\ Sources!Here.policies[p] # 0
    BY <1>2, <1>4, <2>1 DEF Sources!Absent
  <2>3. DOMAIN contents' = DOMAIN contents \cup {p}
        /\ contents'[p] = Sources!Here.policies[p]
        /\ \A q \in DOMAIN contents : q # p => contents'[q] = contents[q]
    BY <1>2
  <2> QED
    BY <1>11, <2>1, <2>2, <2>3 DEF TextsSeen
<1>12. Previewing'
  BY <1>2, <1>3, <1>11 DEF Previewing
<1>13. SecondPass'
  <2> SUFFICES ASSUME pass = "captured"
               PROVE  \E t \in Low .. Len(past) : Began(t)' /\ Capturing(t)'
    BY <1>2, <1>3 DEF SecondPass
  <2>1. PICK t \in Low .. Len(past) : Began(t) /\ Capturing(t)
    BY <1>3 DEF SecondPass
  <2>2. Began(t)'
    BY <1>2, <1>3, <2>1 DEF Began
  <2>3. t \in 1 .. Len(past)
    BY <1>3
  <2>4. Capturing(t)'
    BY <1>2, <1>3, <1>11, <2>1, <2>3 DEF Capturing
  <2> QED
    BY <2>2, <2>4
<1> QED
  BY <1>8, <1>9, <1>10, <1>12, <1>13

LEMMA ReadNoticeKeeps ==
    ASSUME SourceInv, Sources!ReadNotice
    PROVE  SourceInv'
<1>2. /\ step = "members" /\ step' = "directory" /\ DOMAIN contents = members
      /\ notice' = IF pass = "captured" THEN Sources!Here.notice ELSE Sources!Absent
      /\ UNCHANGED <<past, profiled, pass, selected, taken, declared, members, contents, captured, expected,
                     snapshot, since>>
  BY DEF Sources!ReadNotice
<1> USE DEF SourceInv
<1>3. /\ past' = past /\ Low' = Low /\ Size' = Size /\ Place' = Place /\ Low \in 1 .. Len(past) /\ Underway
      /\ Len(captured) < Size /\ Place = Sources!Root /\ Place \in 1 .. Roots
  BY <1>2, LowIsThere DEF Progress, Low, Size, Place, Underway
<1>4. Sources!Here = Sources!Now.roots[Place] /\ Sources!Here.notice \in Sources!Found /\ Sources!Absent \in Sources!Found
  BY <1>3, NowIsAMoment DEF Sources!Here, Sources!Directory, Sources!Found
<1>5. SourceTypes'
  BY <1>2, <1>4 DEF SourceTypes
<1>6. HistoryInv' /\ FirstCapture' /\ Sources!CapturedTogether' /\ Sources!PublishedIsFresh'
  BY <1>2, CaptureStays
<1>7. Progress'
  BY <1>2, <1>3 DEF Progress, Underway
<1>8. Previewing'
  BY <1>2, <1>3 DEF Previewing
<1>9. SecondPass'
  <2> SUFFICES ASSUME pass = "captured"
               PROVE  \E t \in Low .. Len(past) : Began(t)' /\ Capturing(t)'
    BY <1>2, <1>3 DEF SecondPass
  <2>1. PICK t \in Low .. Len(past) : Began(t) /\ Capturing(t)
    BY <1>3 DEF SecondPass
  <2>2. Began(t)'
    BY <1>2, <1>3, <2>1 DEF Began
  <2>3. t \in 1 .. Len(past)
    BY <1>3
  <2>4. NoticeSeen(past, notice', Place, t, Len(past))
    BY <1>2, <1>4, <2>3, SeenNow
  <2>5. Capturing(t)'
    BY <1>2, <1>3, <2>1, <2>4 DEF Capturing
  <2> QED
    BY <2>2, <2>5
<1> QED
  BY <1>5, <1>6, <1>7, <1>8, <1>9

LEMMA CloseDirectoryKeeps ==
    ASSUME SourceInv, Sources!CloseDirectory
    PROVE  SourceInv'
<1>0. CASE Sources!Refuse
  BY <1>0, RefusalKeeps
<1>1. SUFFICES ASSUME ~Sources!Refuse
               PROVE  SourceInv'
  BY <1>0
<1> DEFINE read == [manifest |-> taken, declared |-> declared, contents |-> contents, notice |-> notice,
                    unlisted |-> Sources!Unlisted(Sources!Here, members)]
           all == Append(captured, read)
           last == Sources!Root = (IF profiled THEN Roots ELSE 1)
<1>2. /\ step = "directory"
      /\ taken' = Sources!Absent /\ declared' = Sources!Undeclared /\ members' = {} /\ contents' = <<>>
      /\ notice' = Sources!Absent
      /\ IF last /\ pass = "expected"
         THEN /\ expected' = [profile |-> selected, packs |-> all] /\ captured' = <<>>
              /\ pass' = "captured" /\ step' = Sources!FirstStep
         ELSE /\ captured' = all /\ step' = IF last THEN "captured" ELSE "manifest"
              /\ UNCHANGED <<expected, pass>>
      /\ UNCHANGED <<past, profiled, selected, snapshot, since>>
  BY <1>1 DEF Sources!CloseDirectory
<1> USE DEF SourceInv
<1>3. /\ past' = past /\ Low' = Low /\ Size' = Size /\ Low \in 1 .. Len(past) /\ Underway /\ Size \in Nat \ {0}
      /\ Len(captured) < Size /\ Place = Sources!Root /\ Place \in 1 .. Roots /\ Place \in 1 .. Size
      /\ Place = Len(captured) + 1 /\ DOMAIN captured = 1 .. Len(captured) /\ Len(captured) \in Nat
  BY <1>2, LowIsThere DEF Progress, Low, Size, Place, Underway
<1>4. /\ Sources!Here = Sources!Now.roots[Place] /\ Sources!Here \in Sources!Directory
      /\ Sources!Now = past[Len(past)]
  BY <1>3, NowIsAMoment DEF Sources!Here
<1>5. read \in Sources!Pack
  <2>1. Sources!Unlisted(Sources!Here, members) \subseteq 1 .. FilesPerRoot
    BY DEF Sources!Unlisted, Sources!Present
  <2> QED
    BY <2>1 DEF Sources!Pack, SourceTypes
<1>6. last <=> Place = Size
  BY <1>3 DEF Size
<1>7. DOMAIN contents = members
  BY <1>2 DEF Progress
<1>8. /\ read.manifest = taken /\ read.declared = declared /\ read.contents = contents /\ read.notice = notice
      /\ read.unlisted = Sources!Unlisted(Sources!Here, DOMAIN contents)
  BY <1>7
<1> HIDE DEF read, last
<1>9. /\ all \in Seq(Sources!Pack) /\ Len(all) = Place /\ all[Place] = read /\ DOMAIN all = 1 .. Place
      /\ \A r \in 1 .. Place : r # Place => r \in DOMAIN captured /\ all[r] = captured[r]
  BY <1>3, <1>5 DEF SourceTypes
<1> HIDE DEF all
<1>10. step' \in {"captured", "manifest", Sources!FirstStep}
  <2>1. CASE last /\ pass = "expected"
    BY <1>2, <2>1
  <2>2. CASE ~(last /\ pass = "expected")
    BY <1>2, <2>2
  <2> QED
    BY <2>1, <2>2
<1>11. step' \in {"captured", "manifest", "profile"}
  BY <1>10 DEF Sources!FirstStep
<1>12. SourceTypes'
  <2>1. <<>> \in Seq(Sources!Pack)
    OBVIOUS
  <2>2. captured' \in Seq(Sources!Pack)
    BY <1>2, <1>9, <2>1
  <2>3. /\ Sources!Absent \in Sources!Found /\ Sources!Undeclared \in Sources!Declarations /\ <<>> \in Sources!Contents
    <3>1. Sources!Absent \in Sources!Found /\ Sources!Declaration(Sources!Absent) = Sources!Undeclared
      BY DEF Sources!Found, Sources!Declaration
    <3> QED
      BY <3>1, NothingRead DEF Sources!Declarations
  <2> QED
    BY <1>2, <2>2, <2>3 DEF SourceTypes
<1>13. HistoryInv' /\ FirstCapture' /\ Sources!CapturedTogether' /\ Sources!PublishedIsFresh'
  BY <1>2, <1>11, CaptureStays
<1>14. ASSUME pass = "expected"
       PROVE  \A r \in 1 .. Place : Previewed(past, all[r], r, Low, Len(past))
  <2>1. Previewed(past, read, Place, Low, Len(past))
    BY <1>2, <1>3, <1>7, <1>8, <1>14 DEF Previewing, Previewed
  <2> QED
    BY <1>3, <1>9, <1>14, <2>1 DEF Previewing
<1>15. ASSUME NEW t \in Low .. Len(past), Capturing(t)
       PROVE  \A r \in 1 .. Place : Taken(past, profiled, all[r], r, t, Len(past))
  <2>1. t \in 1 .. Len(past) /\ Len(past) \in t .. Len(past)
    BY <1>3
  <2>2. UnlistedSeen(past, read.unlisted, contents, Place, t, Len(past))
    BY <1>4, <1>8, <2>1, SeenNow
  <2>3. Taken(past, profiled, read, Place, t, Len(past))
    BY <1>2, <1>7, <1>8, <1>15, <2>2 DEF Capturing, Taken
  <2> QED
    BY <1>9, <1>15, <2>3 DEF Capturing
<1>16. CASE last /\ pass = "expected"
  <2>1. /\ expected' = [profile |-> selected, packs |-> all] /\ captured' = <<>> /\ Len(captured') = 0
        /\ pass' = "captured" /\ step' = Sources!FirstStep /\ DOMAIN captured' = {}
    BY <1>2, <1>16
  <2>2. step' = IF profiled THEN "profile" ELSE "manifest"
    BY <2>1 DEF Sources!FirstStep
  <2>3. Progress'
    BY <1>2, <1>3, <2>1, <2>2 DEF Progress, Underway
  <2>4. Previewing'
    BY <2>1 DEF Previewing
  <2>5. PICK n : n = Len(past)
    OBVIOUS
  <2>6. Began(n)'
    <3>1. profiled => ProfileSeen(past, selected, Low, Len(past))
      BY <1>2, <1>3, <1>16 DEF Previewing
    <3>2. expected'.profile = selected /\ expected'.packs = all /\ Place = Size
      BY <1>6, <1>16, <2>1
    <3> QED
      BY <1>2, <1>3, <1>9, <1>14, <1>16, <2>2, <2>5, <3>1, <3>2 DEF Began
  <2>7. Capturing(n)'
    BY <2>1, <2>2 DEF Capturing
  <2>8. n \in Low .. Len(past)
    BY <1>3, <2>5
  <2>9. SecondPass'
    BY <1>3, <2>6, <2>7, <2>8 DEF SecondPass
  <2> QED
    BY <1>12, <1>13, <2>3, <2>4, <2>9
<1>17. CASE ~(last /\ pass = "expected")
  <2>1. /\ captured' = all /\ step' = (IF last THEN "captured" ELSE "manifest")
        /\ expected' = expected /\ pass' = pass /\ Len(captured') = Place /\ DOMAIN captured' = 1 .. Place
    BY <1>2, <1>9, <1>17
  <2>2. ~last => profiled /\ Place < Size
    BY <1>3, <1>6 DEF Size
  <2>3. Progress'
    <3>1. last => pass = "captured"
      BY <1>17 DEF SourceTypes
    <3> QED
      BY <1>2, <1>3, <1>6, <2>1, <2>2, <3>1 DEF Progress, Underway
  <2>4. Previewing'
    BY <1>2, <1>3, <1>14, <1>17, <2>1 DEF Previewing, Underway
  <2>5. SecondPass'
    <3> SUFFICES ASSUME pass = "captured"
                 PROVE  \E t \in Low .. Len(past) : Began(t)' /\ Capturing(t)'
      BY <1>3, <2>1 DEF SecondPass
    <3>1. PICK t \in Low .. Len(past) : Began(t) /\ Capturing(t)
      BY <1>3 DEF SecondPass
    <3>2. Capturing(t)'
      BY <1>2, <1>3, <1>15, <2>1, <3>1 DEF Capturing
    <3>3. ~profiled => captured = <<>> /\ Place = 1 /\ captured' # <<>> /\ captured'[1] = read
      BY <1>3, <1>9, <2>1 DEF Size, SourceTypes
    <3>4. Began(t)'
      BY <1>2, <1>3, <1>8, <2>1, <2>2, <3>1, <3>3 DEF Began
    <3> QED
      BY <3>2, <3>4
  <2> QED
    BY <1>12, <1>13, <2>3, <2>4, <2>5
<1> QED
  BY <1>16, <1>17

LEMMA AcquireKeeps ==
    ASSUME SourceInv, Sources!Acquire
    PROVE  SourceInv'
<1>2. /\ step = "waiting" /\ since' = Len(past) /\ step' = Sources!FirstStep /\ pass' = "expected"
      /\ selected' = <<>> /\ captured' = <<>> /\ expected' = Sources!NoSnapshot
      /\ UNCHANGED <<past, profiled, taken, declared, members, contents, notice, snapshot>>
  BY DEF Sources!Acquire, Sources!directory
<1> USE DEF SourceInv
<1>3. /\ Len(past) \in Nat \ {0} /\ Size' = Size /\ Size \in Nat \ {0} /\ since = 0 /\ Low = 1
      /\ step' = (IF profiled THEN "profile" ELSE "manifest") /\ DOMAIN captured' = {} /\ Len(captured') = 0
      /\ captured' \in Seq(Sources!Pack)
  BY <1>2, LowIsThere, NowIsAMoment DEF Progress, Size, Low, Sources!FirstStep
<1>4. SourceTypes'
  BY <1>2, <1>3 DEF SourceTypes
<1>5. HistoryInv'
  BY <1>2 DEF HistoryInv
<1>6. Progress'
  BY <1>2, <1>3 DEF Progress, Underway
<1>7. Previewing'
  BY <1>2, <1>3 DEF Previewing
<1>8. SecondPass'
  BY <1>2 DEF SecondPass
<1>9. FirstCapture'
  BY <1>2, <1>3 DEF FirstCapture
<1>10. Sources!CapturedTogether' /\ Sources!PublishedIsFresh'
  BY <1>3 DEF Sources!CapturedTogether, Sources!PublishedIsFresh
<1> QED
  BY <1>4, <1>5, <1>6, <1>7, <1>8, <1>9, <1>10

(***************************************************************************)
(* What becomes of a capture.                                              *)
(***************************************************************************)

LEMMA PackTexts ==
    ASSUME NEW pack0 \in Sources!Pack
    PROVE  DOMAIN pack0.contents \subseteq 1 .. FilesPerRoot
BY DEF Sources!Pack, Sources!Contents

LEMMA PastIsSound ==
    ASSUME SourceTypes, HistoryInv
    PROVE  Sound(past)
BY NowIsAMoment DEF HistoryInv, Sound

\* generation_sources.py:205: the moment at which a capture began is the one at
\* which all of it was there.
LEMMA AcceptedTogether ==
    ASSUME SourceInv, step = "captured", Sources!Agrees, since = 0
    PROVE  \E k \in DOMAIN past :
            /\ profiled => selected = past[k].profile
            /\ \A r \in Sources!Selection :
                /\ ~profiled => captured[r].manifest = past[k].roots[r].manifest
                /\ \A p \in DOMAIN captured[r].contents : captured[r].contents[p] = past[k].roots[r].policies[p]
<1> USE DEF SourceInv
<1>1. pass = "captured" /\ Len(captured) = Size /\ captured \in Seq(Sources!Pack)
  BY DEF Progress, SourceTypes
<1>2. PICK t \in Low .. Len(past) : Began(t) /\ Capturing(t)
  BY <1>1 DEF SecondPass
<1>3. /\ Low = 1 /\ Len(past) \in Nat /\ t \in 1 .. Len(past) /\ t \in DOMAIN past /\ Size \in Nat \ {0} /\ Size <= Roots
      /\ Sources!Selection = 1 .. Size /\ DOMAIN captured = 1 .. Size
  BY <1>1, LowIsThere, NowIsAMoment DEF Low
<1>4. profiled => selected = past[t].profile
  BY <1>2 DEF Began
<1>5. ~profiled => captured[1].manifest = past[t].roots[1].manifest
  <2>1. captured # <<>>
    BY <1>1, <1>3
  <2> QED
    BY <1>2, <2>1 DEF Began
<1>6. ~profiled => Size = 1
  BY DEF Size
<1>7. ASSUME NEW r \in 1 .. Size, NEW p \in DOMAIN captured[r].contents
      PROVE  captured[r].contents[p] = past[t].roots[r].policies[p]
  <2> DEFINE texts == captured[r].contents
  <2>1. captured[r] \in Sources!Pack /\ r \in 1 .. Roots
    BY <1>1, <1>3, RootsAreSome
  <2>2. TextsSeen(past, texts, r, t, Len(past))
    BY <1>2, <1>3 DEF Capturing, Taken
  <2>3. TextsSeen(past, texts, r, 1, t)
    <3>1. TextsSeen(past, expected.packs[r].contents, r, 1, t)
      BY <1>2, <1>3 DEF Began, Previewed
    <3>2. expected.packs[r].contents = texts
      BY <1>3 DEF Sources!Agrees, Sources!PinOf
    <3> QED
      BY <3>1, <3>2
  <2>4. DOMAIN texts \subseteq 1 .. FilesPerRoot
    BY <2>1, PackTexts
  <2>5. /\ 1 \in 1 .. Len(past) /\ t \in 1 .. Len(past) /\ Len(past) \in 1 .. Len(past) /\ t \in t .. t
    BY <1>3
  <2>6. Sound(past)
    BY PastIsSound
  <2>7. ThereAt(past, r, 1, t, t, Len(past), t)
    BY <2>1, <2>5, <2>6, SeenTwice, Zenon
  <2> QED
    BY <2>2, <2>3, <2>4, <2>7, Zenon DEF ThereAt
<1> QED
  BY <1>3, <1>4, <1>5, <1>6, <1>7

\* generations.py:1280: the capture that is made with the lock is of a moment
\* after the lock was acquired, to the last notice.
LEMMA PublishedFresh ==
    ASSUME SourceInv, step = "captured", Sources!Agrees, since # 0,
           snapshot = [profile |-> selected, packs |-> captured]
    PROVE  \E k \in since .. Len(past) :
            /\ profiled => snapshot.profile = past[k].profile
            /\ \A r \in Sources!Selection : snapshot.packs[r] = Sources!Whole(past[k].roots[r])
<1> USE DEF SourceInv
<1>1. /\ pass = "captured" /\ Len(captured) = Size /\ captured \in Seq(Sources!Pack)
      /\ snapshot.profile = selected /\ snapshot.packs = captured
  BY DEF Progress, SourceTypes
<1>2. PICK t \in Low .. Len(past) : Began(t) /\ Capturing(t)
  BY <1>1 DEF SecondPass
<1>3. /\ Low = since /\ Len(past) \in Nat /\ since \in 1 .. Len(past) /\ t \in since .. Len(past)
      /\ Size \in Nat \ {0} /\ Size <= Roots
      /\ Sources!Selection = 1 .. Size /\ DOMAIN captured = 1 .. Size
  BY <1>1, <1>2, LowIsThere DEF Low
<1>4. Sound(past)
  BY PastIsSound
<1>5. ASSUME NEW r \in 1 .. Size
      PROVE  /\ captured[r].manifest # 0 => \A m \in since .. t : captured[r] = Sources!Whole(past[m].roots[r])
             /\ captured[r].manifest = 0 => \E m \in since .. t : captured[r] = Sources!Whole(past[m].roots[r])
  <2>1. captured[r] \in Sources!Pack /\ r \in 1 .. Roots
    BY <1>1, <1>3, RootsAreSome
  <2>2. Taken(past, profiled, captured[r], r, 1, since)
    BY <1>1, <1>3 DEF FirstCapture
  <2>3. Taken(past, profiled, captured[r], r, t, Len(past))
    BY <1>2, <1>3 DEF Capturing
  <2>4. Previewed(past, expected.packs[r], r, since, t)
    BY <1>2, <1>3 DEF Began
  <2>5. DOMAIN expected.packs[r].contents = DOMAIN captured[r].contents
    BY <1>3 DEF Sources!Agrees, Sources!PinOf
  <2> HIDE DEF SourceInv
  <2>6. since \in 1 .. Len(past) /\ t \in since .. Len(past)
    BY <1>3
  <2> QED
    BY <1>4, <2>1, <2>2, <2>3, <2>4, <2>5, <2>6, WholeBetween
<1>6. CASE profiled
  <2>1. \A r \in 1 .. Size : captured[r] = Sources!Whole(past[since].roots[r])
    <3> TAKE r \in 1 .. Size
    <3>1. Obeyed(profiled, captured[r].manifest, captured[r].declared, DOMAIN captured[r].contents)
      BY <1>2, <1>3 DEF Capturing, Taken
    <3>2. captured[r].manifest # 0
      BY <1>6, <3>1 DEF Obeyed
    <3>3. since \in since .. t
      BY <1>3
    <3> QED
      BY <1>5, <3>2, <3>3
  <2>2. past[since].profile = selected
    <3>1. PICK i \in 1 .. since : selected = past[i].profile
      BY <1>1, <1>3, <1>6 DEF FirstCapture, ProfileSeen
    <3>2. selected = past[t].profile
      BY <1>2, <1>6 DEF Began
    <3>3. /\ i \in 1 .. Len(past) /\ t \in 1 .. Len(past) /\ since \in i .. t /\ past[i].profile = past[t].profile
      BY <1>3, <3>1, <3>2
    <3>4. Forward(past)
      BY <1>6 DEF HistoryInv
    <3>5. past[since].profile = past[i].profile
      BY <1>3, <3>3, <3>4, ProfileTwice
    <3> QED
      BY <3>1, <3>5
  <2>3. since \in since .. Len(past)
    BY <1>3
  <2> QED
    BY <1>1, <1>3, <2>1, <2>2, <2>3
<1>7. CASE ~profiled
  <2>1. Size = 1
    BY <1>7 DEF Size
  <2>2. \E m \in since .. t : captured[1] = Sources!Whole(past[m].roots[1])
    <3>1. 1 \in 1 .. Size /\ since \in since .. t
      BY <1>3, <2>1
    <3> QED
      BY <1>5, <3>1
  <2>3. PICK m \in since .. t : captured[1] = Sources!Whole(past[m].roots[1])
    BY <2>2
  <2>4. m \in since .. Len(past)
    BY <1>3
  <2>5. \A r \in Sources!Selection : r = 1
    BY <1>3, <2>1
  <2> QED
    BY <1>1, <1>7, <2>3, <2>4, <2>5
<1> QED
  BY <1>6, <1>7

LEMMA ResolveKeeps ==
    ASSUME SourceInv, Sources!Resolve
    PROVE  SourceInv'
<1>0. CASE Sources!Refuse
  BY <1>0, RefusalKeeps
<1>1. SUFFICES ASSUME ~Sources!Refuse
               PROVE  SourceInv'
  BY <1>0
<1>2. /\ step = "captured" /\ Sources!Agrees
      /\ since = 0 \/ [profile |-> selected, packs |-> captured] = snapshot
      /\ snapshot' = [profile |-> selected, packs |-> captured]
      /\ step' = (IF since = 0 THEN "waiting" ELSE "published")
      /\ UNCHANGED <<past, profiled, pass, selected, taken, declared, members, contents, notice, captured, expected,
                     since>>
  BY <1>1 DEF Sources!Resolve, Sources!directory
<1> USE DEF SourceInv
<1>3. SourceTypes'
  BY <1>2 DEF SourceTypes
<1>4. HistoryInv'
  BY <1>2 DEF HistoryInv
<1>5. Progress'
  BY <1>2 DEF Progress, Underway, Size
<1>6. Previewing' /\ SecondPass'
  BY <1>2 DEF Previewing, SecondPass, Underway
<1>7. CASE since = 0
  <2>1. PICK t \in Low .. Len(past) : Began(t) /\ Capturing(t)
    BY <1>2 DEF SecondPass, Progress
  <2>2. Low = 1 /\ t \in 1 .. Len(past) /\ Len(past) \in Nat /\ Len(captured) = Size /\ DOMAIN captured = 1 .. Size
        /\ step' = "waiting" /\ snapshot'.profile = selected /\ snapshot'.packs = captured /\ Size' = Size
    BY <1>2, <1>7, LowIsThere DEF Low, Progress, Size
  <2>3. profiled => ProfileSeen(past, selected, 1, Len(past))
    BY <1>2, <2>1, <2>2 DEF Began, ProfileSeen
  <2>4. \A r \in 1 .. Size : Taken(past, profiled, captured[r], r, 1, Len(past))
    <3> TAKE r \in 1 .. Size
    <3>1. Taken(past, profiled, captured[r], r, t, Len(past))
      BY <2>1, <2>2 DEF Capturing
    <3>2. /\ t \in Nat /\ Len(past) \in Nat /\ 1 \in Nat /\ 1 <= t /\ Len(past) <= Len(past)
          /\ \A k \in t .. Len(past) : past[k] = past[k]
      BY <2>2
    <3> QED
      BY <3>1, <3>2, SeenStays
  <2>5. FirstCapture'
    BY <1>2, <1>7, <2>2, <2>3, <2>4 DEF FirstCapture
  <2>6. Sources!CapturedTogether'
    BY <1>2, <1>7, <2>2, AcceptedTogether DEF Sources!CapturedTogether, Sources!Selection
  <2>7. Sources!PublishedIsFresh'
    BY <2>2 DEF Sources!PublishedIsFresh
  <2> QED
    BY <1>3, <1>4, <1>5, <1>6, <2>5, <2>6, <2>7
<1>8. CASE since # 0
  <2>1. step' = "published" /\ snapshot' = snapshot /\ Size' = Size
    BY <1>2, <1>8 DEF Size
  <2>2. FirstCapture'
    BY <1>2, <1>8, <2>1 DEF FirstCapture
  <2>3. Sources!CapturedTogether'
    BY <2>1 DEF Sources!CapturedTogether
  <2>4. Sources!PublishedIsFresh'
    BY <1>2, <1>8, <2>1, PublishedFresh DEF Sources!PublishedIsFresh, Sources!Selection
  <2> QED
    BY <1>3, <1>4, <1>5, <1>6, <2>2, <2>3, <2>4
<1> QED
  BY <1>7, <1>8

LEMMA SourceSteps ==
    ASSUME SourceInv, Sources!Next
    PROVE  SourceInv'
<1>1. CASE Sources!Edit
  BY <1>1, EditsKeep
<1>2. CASE Sources!Capture
  BY <1>2, ReadProfileKeeps, ReadManifestKeeps, ListMembersKeeps, ReadMemberKeeps, ReadNoticeKeeps,
     CloseDirectoryKeeps, ResolveKeeps, AcquireKeeps, RefusalKeeps DEF Sources!Capture, Sources!Fail
<1> QED
  BY <1>1, <1>2 DEF Sources!Next

LEMMA OneMoment ==
    ASSUME NEW now \in Moment
    PROVE  /\ <<now>> \in Seq(Moment) /\ Len(<<now>>) = 1 /\ <<now>>[1] = now /\ Steady(<<now>>)
           /\ now.profile \in Choices => Forward(<<now>>)
<1> DEFINE history == <<now>>
<1>1. history \in Seq(Moment) /\ Len(history) = 1 /\ history[1] = now
  OBVIOUS
<1> HIDE DEF history
<1>2. ASSUME NEW r, NEW p
      PROVE  NeverBack(ManifestTexts(history, r)) /\ NeverBack(NoticeTexts(history, r)) /\ NeverBack(PolicyTexts(history, r, p))
  <2>1. /\ DOMAIN ManifestTexts(history, r) = 1 .. 1 /\ DOMAIN NoticeTexts(history, r) = 1 .. 1
        /\ DOMAIN PolicyTexts(history, r, p) = 1 .. 1
    BY <1>1 DEF ManifestTexts, NoticeTexts, PolicyTexts
  <2> QED
    BY <2>1, OneText
<1>3. Steady(history)
  BY <1>2 DEF Steady
<1>4. ASSUME now.profile \in Choices PROVE Forward(history)
  <2>1. now.profile.edition \in Nat
    BY <1>4 DEF Choices
  <2>2. \A i \in 1 .. 1 : i = 1
    OBVIOUS
  <2> QED
    BY <1>1, <1>4, <2>1, <2>2 DEF Forward
<1> QED
  BY <1>1, <1>3, <1>4 DEF history

LEMMA SourceStart ==
    ASSUME Sources!Init
    PROVE  SourceInv
<1>1. PICK first \in [manifest : {0, 1}, notice : {0, 1}, policies : {[p \in 1 .. FilesPerRoot |->
                        IF p = 1 THEN 1 ELSE second] : second \in {0, 1}}] :
        LET other == [manifest |-> 1, notice |-> 0, policies |-> [p \in 1 .. FilesPerRoot |-> 1]]
            roots == [r \in 1 .. Roots |-> IF r = 1 THEN first ELSE other]
        IN  /\ profiled \in (IF Sources!Pinnable(roots) THEN BOOLEAN ELSE {FALSE})
            /\ past = <<[profile |-> IF profiled THEN Sources!Profile(1, roots) ELSE <<>>, roots |-> roots]>>
  BY DEF Sources!Init, Sources!Absent
<1> DEFINE other == [manifest |-> 1, notice |-> 0, policies |-> [p \in 1 .. FilesPerRoot |-> 1]]
           roots == [r \in 1 .. Roots |-> IF r = 1 THEN first ELSE other]
           choice == IF profiled THEN Sources!Profile(1, roots) ELSE <<>>
           now == [profile |-> choice, roots |-> roots]
<1>2. profiled \in BOOLEAN /\ past = <<now>>
  BY <1>1
<1>3. /\ step = (IF profiled THEN "profile" ELSE "manifest") /\ pass = "expected" /\ selected = <<>>
      /\ taken = 0 /\ declared = Sources!Undeclared /\ members = {} /\ contents = <<>> /\ notice = 0
      /\ captured = <<>> /\ since = 0
  BY DEF Sources!Init, Sources!FirstStep, Sources!NoDirectory, Sources!Absent
<1>4. roots \in Layouts
  <2>1. other \in Sources!Directory
    BY RootsAreSome, SourceWords DEF Sources!Directory
  <2>2. first \in Sources!Directory
    <3>1. PICK second \in {0, 1} : first.policies = [p \in 1 .. FilesPerRoot |-> IF p = 1 THEN 1 ELSE second]
      BY <1>1
    <3>2. first.policies \in [1 .. FilesPerRoot -> Sources!Found] /\ first.manifest \in Sources!Found /\ first.notice \in Sources!Found
      BY <3>1, RootsAreSome, SourceWords
    <3>3. first = [manifest |-> first.manifest, notice |-> first.notice, policies |-> first.policies]
      OBVIOUS
    <3> HIDE DEF other
    <3> QED
      BY <3>2, <3>3 DEF Sources!Directory
  <2> HIDE DEF other
  <2> QED
    BY <2>1, <2>2 DEF Layouts
<1> HIDE DEF roots
<1>5. profiled => choice \in Choices
  BY <1>4 DEF Sources!Profile, Choices
<1>6. choice \in Choices \cup {<<>>}
  BY <1>5
<1> HIDE DEF choice
<1>7. now \in Moment /\ now.profile = choice
  BY <1>4, <1>6 DEF Moment
<1> HIDE DEF now
<1>8. /\ past \in Seq(Moment) /\ Len(past) = 1 /\ Steady(past) /\ (profiled => Forward(past))
  BY <1>2, <1>5, <1>7, OneMoment
<1>9. SourceTypes
  <2>1. 0 \in Sources!Found /\ Sources!Undeclared \in Sources!Declarations
    <3>1. Sources!Absent \in Sources!Found /\ Sources!Declaration(Sources!Absent) = Sources!Undeclared
      BY DEF Sources!Found, Sources!Declaration
    <3> QED
      BY <3>1, SourceWords DEF Sources!Declarations
  <2>2. captured \in Seq(Sources!Pack) /\ contents \in Sources!Contents
    BY <1>3, NothingRead
  <2> QED
    BY <1>2, <1>3, <1>8, <2>1, <2>2 DEF SourceTypes
<1>10. HistoryInv
  BY <1>8 DEF HistoryInv
<1>11. Progress
  BY <1>3, RootsAreSome DEF Progress, Underway, Size
<1>12. Previewing
  BY <1>3 DEF Previewing
<1>13. SecondPass /\ FirstCapture /\ Sources!CapturedTogether /\ Sources!PublishedIsFresh
  BY <1>3 DEF SecondPass, FirstCapture, Sources!CapturedTogether, Sources!PublishedIsFresh
<1> QED
  BY <1>9, <1>10, <1>11, <1>12, <1>13 DEF SourceInv

-----------------------------------------------------------------------------
(***************************************************************************)
(* EffectivePolicies.                                                      *)
(***************************************************************************)

\* A sequence, of whatever it is one.
Listing(s) == Len(s) \in Nat /\ DOMAIN s = 1 .. Len(s) /\ s \in Seq({s[i] : i \in DOMAIN s})

LEMMA OneMore ==
    ASSUME NEW s, Listing(s), NEW x
    PROVE  /\ Listing(Append(s, x)) /\ Len(Append(s, x)) = Len(s) + 1
           /\ \A i \in DOMAIN s : Append(s, x)[i] = s[i]
           /\ Append(s, x)[Len(s) + 1] = x
<1> DEFINE Some == {s[i] : i \in DOMAIN s} \cup {x}
           t == Append(s, x)
<1>1. s \in Seq(Some)
  BY DEF Listing
<1>2. t \in Seq(Some) /\ Len(t) = Len(s) + 1 /\ t[Len(s) + 1] = x /\ \A i \in 1 .. Len(s) : t[i] = s[i]
  BY <1>1
<1> HIDE DEF t, Some
<1>3. Len(t) \in Nat /\ DOMAIN t = 1 .. Len(t)
  BY <1>2
<1>4. \A i \in 1 .. Len(t) : t[i] \in {t[k] : k \in DOMAIN t}
  BY <1>3
<1>5. t \in Seq({t[i] : i \in DOMAIN t})
  BY <1>2, <1>3, <1>4
<1>6. Listing(t)
  BY <1>3, <1>5 DEF Listing
<1> QED
  BY <1>2, <1>6 DEF Listing, t

\* A pin of an edition of a directory; its texts have rules.
Genuine(pin) ==
    /\ pin.path \in DOMAIN DirectoryOf
    /\ \E e \in Editions : pin.pack = e.pack /\ pin.version = e.version /\ DOMAIN pin.members = DOMAIN e.files
    /\ \A p \in DOMAIN pin.members : pin.members[p] \in DOMAIN RulesOf

ProfileSound ==
    /\ Listing(profile.packs) /\ Len(profile.packs) > 0 /\ Listing(profile.decisions)
    /\ \A i \in DOMAIN profile.packs : profile.packs[i].path \in DOMAIN DirectoryOf
    /\ pinning => profile = [packs |-> profile.packs, decisions |-> <<>>, conflicts |-> {}]

\* What is loaded is as it was pinned, unless it is being pinned.
LoadedSound ==
    /\ Listing(loaded) /\ \A i \in DOMAIN loaded : Genuine(loaded[i])
    /\ ~pinning => \A i \in DOMAIN loaded : loaded[i] = profile.packs[i]

\* While packs are read one of them is left; then none is.
Reading == reading \in {"manifest", "list", "members"}
Positions ==
    /\ Reading => Len(loaded) < Len(profile.packs)
    /\ reading \in {"deciding", "resolved"} => ~pinning /\ Len(loaded) = Len(profile.packs)
    /\ reading = "members" =>
         /\ \E e \in Editions : listed = Pack!ManifestOf(e)
         /\ \A p \in DOMAIN got : got[p] \in DOMAIN RulesOf
    /\ reading # "resolved" => verdict = Pack!NoVerdict
    /\ reading = "resolved" => Pack!Acceptable

PackInv ==
    /\ disk \in [Directories -> Editions] /\ ProfileSound /\ LoadedSound /\ Positions /\ Pack!DecisionsFollowRules

-----------------------------------------------------------------------------
(* What is accepted is what was reviewed.                                  *)

LEMMA SameCount == ASSUME NEW S PROVE Pack!Cardinality(S) = Cardinality(S)
BY DEF Pack!Cardinality, Cardinality

LEMMA ContentOf ==
    ASSUME PackInv, Pack!Acceptable, NEW p \in Pack!Authored
    PROVE  \E i \in DOMAIN loaded : Pack!Sources(p) = {i} /\ Pack!Content(p) = loaded[i].members[p]
<1>1. Cardinality(Pack!Sources(p)) = 1
  BY SameCount DEF Pack!Acceptable
<1>2. DOMAIN loaded = 1 .. Len(loaded) /\ Len(loaded) \in Nat
  BY DEF PackInv, LoadedSound, Listing
<1>3. IsFiniteSet(1 .. Len(loaded))
  BY <1>2, FS_Interval
<1>4. Pack!Sources(p) \in SUBSET (1 .. Len(loaded))
  BY <1>2 DEF Pack!Sources
<1>5. IsFiniteSet(Pack!Sources(p))
  BY <1>3, <1>4, FS_Subset
<1>6. PICK i : Pack!Sources(p) = {i}
  BY <1>1, <1>5, FS_Singleton
<1>7. (CHOOSE k \in Pack!Sources(p) : TRUE) = i
  BY <1>6
<1> QED
  BY <1>2, <1>4, <1>6, <1>7 DEF Pack!Content

LEMMA AcceptedIsReviewed == ASSUME PackInv PROVE Pack!EffectiveIsReviewed
<1> SUFFICES ASSUME reading = "resolved" PROVE Pack!EffectiveIsReviewed
  BY DEF Pack!EffectiveIsReviewed
<1> DEFINE pins == Pack!Range(profile.packs)
           pinned == UNION {DOMAIN pin.members : pin \in pins}
<1>1. Pack!Acceptable
  BY DEF PackInv, Positions
<1>2. DOMAIN loaded = DOMAIN profile.packs /\ \A i \in DOMAIN loaded : loaded[i] = profile.packs[i]
  BY DEF PackInv, LoadedSound, ProfileSound, Positions, Listing
<1>3. pins = {loaded[i] : i \in DOMAIN loaded}
  BY <1>2 DEF Pack!Range
<1>4. pinned = Pack!Authored
  BY <1>3 DEF Pack!Authored
<1> HIDE DEF pins
<1>5. ASSUME NEW pin \in pins
      PROVE  [pack |-> pin.pack, version |-> pin.version] \in
                 {[pack |-> e.pack, version |-> e.version] : e \in {x \in Editions : DOMAIN x.files = DOMAIN pin.members}}
  <2>1. Genuine(pin)
    BY <1>3 DEF PackInv, LoadedSound
  <2>2. PICK e \in Editions : pin.pack = e.pack /\ pin.version = e.version /\ DOMAIN pin.members = DOMAIN e.files
    BY <2>1 DEF Genuine
  <2>3. e \in {x \in Editions : DOMAIN x.files = DOMAIN pin.members}
    BY <2>2
  <2>4. [pack |-> pin.pack, version |-> pin.version] = [pack |-> e.pack, version |-> e.version]
    BY <2>2
  <2> QED
    BY <2>3, <2>4
<1>6. ASSUME NEW p \in pinned
      PROVE  /\ Pack!Cardinality({pin \in pins : p \in DOMAIN pin.members}) = 1
             /\ \A pin \in pins : p \in DOMAIN pin.members =>
                  \/ p \in Pack!Active /\ Pack!Content(p) = pin.members[p]
                  \/ p \notin Pack!Active /\ Pack!Cardinality({i \in DOMAIN Pack!Decisions :
                            Pack!Decisions[i].target = p /\ Pack!Decisions[i].digest = pin.members[p]}) = 1
  <2>1. p \in Pack!Authored
    BY <1>4
  <2>2. PICK k \in DOMAIN loaded : Pack!Sources(p) = {k} /\ Pack!Content(p) = loaded[k].members[p]
    BY <1>1, <2>1, ContentOf
  <2>3. \A i \in DOMAIN loaded : p \in DOMAIN loaded[i].members <=> i = k
    BY <2>2 DEF Pack!Sources
  <2>4. {pin \in pins : p \in DOMAIN pin.members} = {loaded[k]}
    BY <1>3, <2>3
  <2>5. Pack!Cardinality({pin \in pins : p \in DOMAIN pin.members}) = 1
    BY <2>4, FS_Singleton, SameCount
  <2>6. ASSUME NEW pin \in pins, p \in DOMAIN pin.members, p \notin Pack!Active
        PROVE  Pack!Cardinality({i \in DOMAIN Pack!Decisions :
                            Pack!Decisions[i].target = p /\ Pack!Decisions[i].digest = pin.members[p]}) = 1
    <3>1. pin.members[p] = Pack!Content(p)
      BY <1>3, <2>2, <2>3, <2>6
    <3>2. PICK i \in DOMAIN Pack!Decisions : Pack!Decisions[i].target = p
      BY <2>1, <2>6 DEF Pack!Active, Pack!Targets
    <3>3. Pack!Decisions[i].digest = Pack!Content(p)
      BY <1>1, <3>2 DEF Pack!Acceptable, Pack!Unfounded
    <3>4. ASSUME NEW j \in DOMAIN Pack!Decisions, Pack!Decisions[j].target = p PROVE j = i
      <4>1. DOMAIN Pack!Decisions \subseteq Nat /\ DOMAIN Pack!Decisions = 1 .. Len(Pack!Decisions)
        BY DEF PackInv, ProfileSound, Listing, Pack!Decisions
      <4>2. ~(i \in 1 .. j - 1) /\ ~(j \in 1 .. i - 1)
        BY <1>1, <3>2, <3>4 DEF Pack!Acceptable, Pack!Contradictory
      <4> QED
        BY <4>1, <4>2
    <3>5. {m \in DOMAIN Pack!Decisions :
              Pack!Decisions[m].target = p /\ Pack!Decisions[m].digest = pin.members[p]} = {i}
      BY <3>1, <3>2, <3>3, <3>4
    <3> QED
      BY <3>5, FS_Singleton, SameCount
  <2>7. ASSUME NEW pin \in pins, p \in DOMAIN pin.members PROVE Pack!Content(p) = pin.members[p]
    BY <1>3, <2>2, <2>3, <2>7
  <2> QED
    BY <2>5, <2>6, <2>7
<1>7. Pack!Replacers \subseteq Pack!Active
  BY <1>1 DEF Pack!Acceptable, Pack!Unfounded, Pack!Replacers, Pack!Active
<1>8. \A pair \in profile.conflicts : ~({pair[1], pair[2]} \subseteq Pack!Active)
  BY <1>1 DEF Pack!Acceptable
<1> QED
  BY <1>5, <1>6, <1>7, <1>8, Zenon DEF Pack!EffectiveIsReviewed, pins

LEMMA AcceptedAgrees == ASSUME PackInv PROVE Pack!RulesAgree
<1> SUFFICES ASSUME reading = "resolved", NEW c \in Pack!CompiledRules, NEW d \in Pack!CompiledRules,
                    c.rule.action = d.rule.action,
                    \A p \in c.rule.patterns : \E q \in d.rule.patterns : Lower[p] = Lower[q],
                    \A q \in d.rule.patterns : \E p \in c.rule.patterns : Lower[p] = Lower[q],
                    c.rule.action = "http_request" \/ c.rule.patterns = d.rule.patterns
             PROVE  c.rule.effect = d.rule.effect
  BY DEF Pack!RulesAgree
<1>1. {Lower[p] : p \in c.rule.patterns} = {Lower[p] : p \in d.rule.patterns}
  OBVIOUS
<1>2. Pack!SameMatchers(c.rule, d.rule)
  BY <1>1 DEF Pack!SameMatchers
<1>3. ~Pack!RuntimeConflict
  BY DEF PackInv, Positions, Pack!Acceptable
<1> QED
  BY <1>2, <1>3 DEF Pack!RuntimeConflict

-----------------------------------------------------------------------------
(* The steps.                                                              *)

\* What is effective depends on the profile and on what is loaded.
LEMMA PoliciesStay ==
    ASSUME UNCHANGED <<profile, loaded>>
    PROVE  /\ Pack!Authored' = Pack!Authored /\ Pack!Active' = Pack!Active
           /\ Pack!Targets' = Pack!Targets /\ Pack!Replacers' = Pack!Replacers /\ Pack!Decisions' = Pack!Decisions
           /\ \A p : Pack!Sources(p)' = Pack!Sources(p) /\ Pack!Content(p)' = Pack!Content(p)
<1>1. profile' = profile /\ loaded' = loaded
  OBVIOUS
<1>2. Pack!Authored' = Pack!Authored /\ Pack!Decisions' = Pack!Decisions
  BY <1>1 DEF Pack!Authored, Pack!Decisions
<1>3. Pack!Targets' = Pack!Targets /\ Pack!Replacers' = Pack!Replacers
  BY <1>2 DEF Pack!Targets, Pack!Replacers
<1>4. Pack!Active' = Pack!Active
  BY <1>2, <1>3 DEF Pack!Active
<1>5. \A p : Pack!Sources(p)' = Pack!Sources(p)
  BY <1>1 DEF Pack!Sources
<1>6. \A p : Pack!Content(p)' = Pack!Content(p)
  BY <1>1, <1>5 DEF Pack!Content
<1> QED
  BY <1>2, <1>3, <1>4, <1>5, <1>6

LEMMA RulesStay == ASSUME UNCHANGED <<profile, loaded>> PROVE Pack!CompiledRules' = Pack!CompiledRules
<1>1. Pack!Rules' = Pack!Rules
  BY PoliciesStay DEF Pack!Rules
<1> QED
  BY <1>1, PoliciesStay DEF Pack!CompiledRules

LEMMA AcceptableStays == ASSUME UNCHANGED <<profile, loaded>> PROVE Pack!Acceptable' <=> Pack!Acceptable
<1>1. profile' = profile
  OBVIOUS
<1>2. Pack!Contradictory' <=> Pack!Contradictory
  BY PoliciesStay DEF Pack!Contradictory
<1>3. Pack!RuntimeConflict' <=> Pack!RuntimeConflict
  BY RulesStay DEF Pack!RuntimeConflict
<1>4. \A d : Pack!Unfounded(d)' <=> Pack!Unfounded(d)
  BY PoliciesStay DEF Pack!Unfounded
<1> QED
  BY <1>1, <1>2, <1>3, <1>4, PoliciesStay DEF Pack!Acceptable

LEMMA NoDecision == ASSUME verdict = Pack!NoVerdict PROVE Pack!DecisionsFollowRules
BY DEF Pack!DecisionsFollowRules

\* What a step does to a profile and its pins that it leaves alone.
LEMMA ProfileStays == ASSUME ProfileSound, UNCHANGED <<profile, pinning>> PROVE ProfileSound'
BY DEF ProfileSound, Listing

LEMMA LoadedStays == ASSUME LoadedSound, UNCHANGED <<profile, pinning, loaded>> PROVE LoadedSound'
BY DEF LoadedSound, Listing, Genuine

\* The directory that is read.
LEMMA DirectoryRead ==
    ASSUME PackInv, Reading
    PROVE  Pack!Directory \in Directories /\ disk[Pack!Directory] \in Editions
<1>1. Len(loaded) + 1 \in DOMAIN profile.packs
  BY DEF PackInv, Positions, LoadedSound, ProfileSound, Listing
<1>2. Pack!Expected.path \in DOMAIN DirectoryOf
  BY <1>1 DEF PackInv, ProfileSound, Pack!Expected
<1>3. Pack!Directory \in Directories
  BY <1>2, PartsAssumption DEF Pack!PoliciesAssumption, Pack!Directory
<1> QED
  BY <1>3 DEF PackInv

LEMMA EditionsHaveRules ==
    ASSUME NEW e \in Editions, NEW p \in DOMAIN e.files PROVE e.files[p] \in DOMAIN RulesOf
BY PartsAssumption DEF Pack!PoliciesAssumption

\* Refusals, manifests, lists and members change neither the profile nor a pin.
LEMMA RefuseKeeps == ASSUME PackInv, Pack!Refuse, Reading PROVE PackInv'
<1>1. UNCHANGED <<disk, profile, pinning, loaded, verdict>> /\ reading' = "refused"
  BY DEF Pack!Refuse
<1>2. verdict' = Pack!NoVerdict
  BY <1>1 DEF PackInv, Positions, Reading
<1>3. Positions'
  BY <1>1, <1>2 DEF Positions, Reading, Pack!NoVerdict
<1>4. Pack!DecisionsFollowRules'
  BY <1>2 DEF Pack!DecisionsFollowRules, Pack!NoVerdict
<1> QED
  BY <1>1, <1>3, <1>4, ProfileStays, LoadedStays DEF PackInv

LEMMA PackManifestKeeps == ASSUME PackInv, Pack!ReadManifest PROVE PackInv'
<1>0. Reading
  BY DEF Pack!ReadManifest, Reading
<1>1. CASE Pack!Refuse
  BY <1>0, <1>1, RefuseKeeps
<1>2. CASE ~Pack!Refuse
  <2>1. UNCHANGED <<disk, profile, pinning, loaded, verdict>> /\ reading' = "list"
    BY <1>2 DEF Pack!ReadManifest
  <2>2. verdict' = Pack!NoVerdict
    BY <1>0, <2>1 DEF PackInv, Positions, Reading
  <2>3. Positions'
    BY <1>0, <2>1, <2>2 DEF PackInv, Positions, Reading, Pack!NoVerdict
  <2>4. Pack!DecisionsFollowRules'
    BY <2>2 DEF Pack!DecisionsFollowRules, Pack!NoVerdict
  <2> QED
    BY <2>1, <2>3, <2>4, ProfileStays, LoadedStays DEF PackInv
<1> QED
  BY <1>1, <1>2

LEMMA PackListKeeps == ASSUME PackInv, Pack!ListMembers PROVE PackInv'
<1>0. Reading
  BY DEF Pack!ListMembers, Reading
<1>1. UNCHANGED <<disk, profile, pinning, loaded, verdict>> /\ reading' = "members" /\ got' = <<>>
  BY DEF Pack!ListMembers
<1>2. verdict' = Pack!NoVerdict
  BY <1>0, <1>1 DEF PackInv, Positions, Reading
<1>3. \E e \in Editions : listed' = Pack!ManifestOf(e)
  BY <1>0, DirectoryRead DEF Pack!ListMembers
<1>4. \A p \in DOMAIN got' : got'[p] \in DOMAIN RulesOf
  BY <1>1
<1>5. Positions'
  BY <1>0, <1>1, <1>2, <1>3, <1>4 DEF PackInv, Positions, Reading, Pack!NoVerdict, Pack!ManifestOf
<1>6. Pack!DecisionsFollowRules'
  BY <1>2 DEF Pack!DecisionsFollowRules, Pack!NoVerdict
<1> QED
  BY <1>1, <1>5, <1>6, ProfileStays, LoadedStays DEF PackInv

LEMMA PackMemberKeeps == ASSUME PackInv, Pack!ReadMember PROVE PackInv'
<1>0. Reading /\ reading = "members"
  BY DEF Pack!ReadMember, Reading
<1>1. CASE Pack!Refuse
  BY <1>0, <1>1, RefuseKeeps
<1>2. CASE ~Pack!Refuse
  <2>1. PICK policy \in listed.members \ DOMAIN got :
           /\ policy \in DOMAIN disk[Pack!Directory].files
           /\ got' = [p \in DOMAIN got \cup {policy} |->
                         IF p = policy THEN disk[Pack!Directory].files[policy] ELSE got[p]]
           /\ UNCHANGED <<disk, profile, pinning, reading, listed, loaded, verdict>>
    BY <1>2 DEF Pack!ReadMember
  <2>2. verdict' = Pack!NoVerdict
    BY <1>0, <2>1 DEF PackInv, Positions, Reading
  <2>3. disk[Pack!Directory].files[policy] \in DOMAIN RulesOf
    BY <1>0, <2>1, DirectoryRead, EditionsHaveRules
  <2>4. \A p \in DOMAIN got' : got'[p] \in DOMAIN RulesOf
    BY <1>0, <2>1, <2>3 DEF PackInv, Positions
  <2>5. \E e \in Editions : listed' = Pack!ManifestOf(e)
    BY <1>0, <2>1 DEF PackInv, Positions
  <2>6. Positions'
    BY <1>0, <2>1, <2>2, <2>4, <2>5 DEF PackInv, Positions, Reading, Pack!NoVerdict, Pack!ManifestOf
  <2>7. Pack!DecisionsFollowRules'
    BY <2>2 DEF Pack!DecisionsFollowRules, Pack!NoVerdict
  <2> QED
    BY <2>1, <2>6, <2>7, ProfileStays, LoadedStays DEF PackInv
<1> QED
  BY <1>1, <1>2

LEMMA PackEditKeeps == ASSUME PackInv, Pack!Edit PROVE PackInv'
<1>0. Reading
  BY DEF Pack!Edit, Reading
<1>1. UNCHANGED <<profile, pinning, reading, listed, got, loaded, verdict>>
  BY DEF Pack!Edit
<1>2. disk' \in [Directories -> Editions]
  BY DEF Pack!Edit, PackInv
<1>3. verdict' = Pack!NoVerdict
  BY <1>0, <1>1 DEF PackInv, Positions, Reading
<1>4. Positions'
  BY <1>0, <1>1, <1>3 DEF PackInv, Positions, Reading, Pack!NoVerdict, Pack!ManifestOf
<1>5. Pack!DecisionsFollowRules'
  BY <1>3 DEF Pack!DecisionsFollowRules, Pack!NoVerdict
<1> QED
  BY <1>1, <1>2, <1>4, <1>5, ProfileStays, LoadedStays DEF PackInv

LEMMA PackResolveKeeps == ASSUME PackInv, Pack!Resolve PROVE PackInv'
<1>1. UNCHANGED <<disk, profile, pinning, loaded, verdict>> /\ reading = "deciding"
      /\ reading' = IF Pack!Acceptable THEN "resolved" ELSE "refused"
  BY DEF Pack!Resolve
<1>2. verdict' = Pack!NoVerdict
  BY <1>1 DEF PackInv, Positions
<1>3. reading' \in {"resolved", "refused"} /\ (reading' = "resolved" => Pack!Acceptable')
  BY <1>1, AcceptableStays
<1>4. Positions'
  <2>1. ~Reading'
    BY <1>3 DEF Reading
  <2>2. ~pinning' /\ Len(loaded)' = Len(profile.packs)'
    BY <1>1 DEF PackInv, Positions
  <2>3. reading' # "members" /\ verdict' = Pack!NoVerdict'
    BY <1>2, <1>3 DEF Pack!NoVerdict
  <2> QED
    BY <1>3, <2>1, <2>2, <2>3 DEF Positions
<1>5. Pack!DecisionsFollowRules'
  BY <1>2 DEF Pack!DecisionsFollowRules, Pack!NoVerdict
<1> QED
  BY <1>1, <1>4, <1>5, ProfileStays, LoadedStays DEF PackInv

\* The end of a pack, and of a profile that is pinned.
LEMMA PinPackKeeps == ASSUME PackInv, Pack!PinPack PROVE PackInv'
<1>0. Reading /\ reading = "members" /\ DOMAIN got = listed.members
  BY DEF Pack!PinPack, Reading
<1>1. CASE Pack!Refuse
  BY <1>0, <1>1, RefuseKeeps
<1>2. CASE ~Pack!Refuse
  <2> DEFINE pin == Pack!PinOf(Pack!Expected.path)
             pins == Append(loaded, pin)
  <2>1. /\ Pack!SamePack /\ (~pinning => pin = Pack!Expected)
        /\ UNCHANGED <<disk, verdict>>
        /\ IF Len(pins) < Len(profile.packs)
           THEN loaded' = pins /\ reading' = "manifest" /\ UNCHANGED <<profile, pinning>>
           ELSE IF ~pinning
           THEN loaded' = pins /\ reading' = "deciding" /\ UNCHANGED <<profile, pinning>>
           ELSE /\ loaded' = <<>> /\ pinning' = FALSE
                /\ profile' = [profile EXCEPT !.packs = pins]
                /\ reading' \in {"refused", "manifest"}
    BY <1>2 DEF Pack!PinPack
  <2>3. pin.path = Pack!Expected.path
    BY DEF Pack!PinOf
  <2>4. /\ Listing(loaded) /\ Listing(profile.packs) /\ Len(loaded) < Len(profile.packs)
        /\ DOMAIN loaded = 1 .. Len(loaded) /\ Len(loaded) \in Nat /\ Len(profile.packs) \in Nat
        /\ DOMAIN profile.packs = 1 .. Len(profile.packs)
    BY <1>0 DEF PackInv, LoadedSound, ProfileSound, Positions, Listing
  <2>2. Genuine(pin)
    <3>1. PICK e \in Editions : listed = Pack!ManifestOf(e)
      BY <1>0 DEF PackInv, Positions
    <3>2. pin.pack = manifest.pack /\ pin.version = manifest.version /\ pin.members = got
      BY DEF Pack!PinOf
    <3>3. listed.pack = e.pack /\ listed.version = e.version /\ listed.members = DOMAIN e.files
      BY <3>1 DEF Pack!ManifestOf
    <3>4. pin.pack = e.pack /\ pin.version = e.version /\ DOMAIN pin.members = DOMAIN e.files
      BY <1>0, <2>1, <3>2, <3>3 DEF Pack!SamePack
    <3>5. \A p \in DOMAIN pin.members : pin.members[p] \in DOMAIN RulesOf
      BY <1>0, <3>2 DEF PackInv, Positions
    <3>6. pin.path \in DOMAIN DirectoryOf
      BY <2>3, <2>4 DEF PackInv, ProfileSound, Pack!Expected
    <3> QED
      BY <3>4, <3>5, <3>6 DEF Genuine
  <2> HIDE DEF pin
  <2>5. /\ Listing(pins) /\ Len(pins) = Len(loaded) + 1
        /\ \A i \in DOMAIN loaded : pins[i] = loaded[i]
        /\ pins[Len(loaded) + 1] = pin
    BY <2>4, OneMore
  <2> HIDE DEF pins
  <2>6. DOMAIN pins = 1 .. Len(loaded) + 1
    BY <2>5 DEF Listing
  <2>7. \A i \in DOMAIN pins : Genuine(pins[i])
    BY <2>2, <2>4, <2>5, <2>6 DEF PackInv, LoadedSound
  <2>8. ~pinning => \A i \in DOMAIN pins : pins[i] = profile.packs[i]
    BY <2>1, <2>4, <2>5, <2>6 DEF PackInv, LoadedSound, Pack!Expected
  <2>9. verdict' = Pack!NoVerdict
    BY <1>0, <2>1 DEF PackInv, Positions
  <2>10. Pack!DecisionsFollowRules'
    BY <2>9 DEF Pack!DecisionsFollowRules, Pack!NoVerdict
  <2>11. CASE loaded' = pins /\ UNCHANGED <<profile, pinning>>
    <3>1. LoadedSound'
      <4>1. Listing(loaded)'
        BY <2>5, <2>11 DEF Listing
      <4>2. (\A i \in DOMAIN loaded : Genuine(loaded[i]))'
        BY <2>7, <2>11 DEF Genuine
      <4>3. (~pinning => \A i \in DOMAIN loaded : loaded[i] = profile.packs[i])'
        BY <2>8, <2>11
      <4> QED
        BY <4>1, <4>2, <4>3 DEF LoadedSound
    <3>2. \/ Len(pins) < Len(profile.packs) /\ reading' = "manifest"
          \/ Len(pins) = Len(profile.packs) /\ ~pinning /\ reading' = "deciding"
      <4>1. CASE Len(pins) < Len(profile.packs)
        BY <2>1, <4>1
      <4>2. CASE ~(Len(pins) < Len(profile.packs)) /\ ~pinning
        BY <2>1, <2>4, <2>5, <4>2
      <4>3. CASE ~(Len(pins) < Len(profile.packs)) /\ pinning
        BY <2>1, <2>11, <4>3
      <4> QED
        BY <4>1, <4>2, <4>3
    <3>3. Positions'
      BY <2>9, <2>11, <3>2 DEF Positions, Reading, Pack!NoVerdict
    <3> QED
      BY <2>1, <2>10, <2>11, <3>1, <3>3, ProfileStays DEF PackInv
  <2>12. CASE ~(loaded' = pins /\ UNCHANGED <<profile, pinning>>)
    <3>1. /\ pinning /\ loaded' = <<>> /\ pinning' = FALSE /\ reading' \in {"refused", "manifest"}
          /\ profile' = [profile EXCEPT !.packs = pins]
      BY <2>1, <2>12
    <3>2. profile = [packs |-> profile.packs, decisions |-> <<>>, conflicts |-> {}]
      BY <3>1 DEF PackInv, ProfileSound
    <3>3. profile'.packs = pins /\ profile'.decisions = profile.decisions
      BY <3>1, <3>2
    <3>4. Listing(<<>>) /\ Len(<<>>) = 0 /\ DOMAIN <<>> = {}
      BY DEF Listing
    <3>5. \A i \in DOMAIN pins : pins[i].path \in DOMAIN DirectoryOf
      <4>1. ASSUME NEW i \in DOMAIN loaded PROVE loaded[i].path \in DOMAIN DirectoryOf
        BY <4>1 DEF PackInv, LoadedSound, Genuine
      <4>2. pin.path \in DOMAIN DirectoryOf
        BY <2>2 DEF Genuine
      <4> QED
        BY <2>4, <2>5, <2>6, <4>1, <4>2
    <3>6. ProfileSound'
      <4>1. Listing(profile.packs)' /\ Listing(profile.decisions)'
        BY <2>5, <3>3 DEF PackInv, ProfileSound, Listing
      <4>2. (\A i \in DOMAIN profile.packs : profile.packs[i].path \in DOMAIN DirectoryOf)'
        BY <3>3, <3>5
      <4>3. Len(profile.packs)' > 0
        BY <2>4, <2>5, <3>3
      <4> QED
        BY <3>1, <4>1, <4>2, <4>3 DEF ProfileSound
    <3>7. LoadedSound'
      BY <3>1, <3>4 DEF LoadedSound, Listing
    <3>8. Positions'
      <4>1. Len(loaded)' < Len(profile.packs)'
        BY <2>4, <2>5, <3>1, <3>3, <3>4
      <4> QED
        BY <2>9, <3>1, <4>1 DEF Positions, Pack!NoVerdict
    <3> QED
      BY <2>1, <2>10, <3>6, <3>7, <3>8 DEF PackInv
  <2> QED
    BY <2>11, <2>12
<1> QED
  BY <1>1, <1>2

-----------------------------------------------------------------------------
(* Decisions.                                                              *)

\* The lines of a compiled rule and of a chunk are in their order.
LEMMA LinesInOrder ==
    ASSUME PackInv, Pack!Acceptable, NEW c \in Pack!CompiledRules
    PROVE  c.rule.first \in Nat /\ c.rule.last \in Nat /\ c.rule.first <= c.rule.last
<1>1. c.policy \in Pack!Active /\ c.rule \in RulesOf[Pack!Content(c.policy)]
  BY DEF Pack!CompiledRules, Pack!Rules
<1>2. PICK i \in DOMAIN loaded : Pack!Sources(c.policy) = {i} /\ Pack!Content(c.policy) = loaded[i].members[c.policy]
  BY <1>1, ContentOf DEF Pack!Active
<1>3. Genuine(loaded[i]) /\ c.policy \in DOMAIN loaded[i].members
  BY <1>2 DEF PackInv, LoadedSound, Pack!Sources
<1>4. Pack!Content(c.policy) \in DOMAIN RulesOf
  BY <1>2, <1>3 DEF Genuine
<1>5. c.rule \in UNION {RulesOf[content] : content \in DOMAIN RulesOf}
  BY <1>1, <1>4
<1> QED
  BY <1>5, PartsAssumption DEF Pack!PoliciesAssumption

\* A chunk that is linked to a rule has a line with it in common.
LEMMA LineInCommon ==
    ASSUME PackInv, Pack!Acceptable, NEW c \in Pack!CompiledRules,
           NEW index \in Indexes, NEW chunk \in Pack!Linked(index, c)
    PROVE  chunk.policy = c.policy /\ (chunk.first .. chunk.last) \cap (c.rule.first .. c.rule.last) # {}
<1>1. chunk \in UNION Indexes /\ chunk.policy = c.policy /\ Pack!Overlaps(chunk, c.rule)
  BY DEF Pack!Linked
<1>2. chunk.first \in Nat /\ chunk.last \in Nat /\ chunk.first <= chunk.last
  <2>1. chunk \in (UNION {RulesOf[content] : content \in DOMAIN RulesOf}) \cup (UNION Indexes)
    BY <1>1
  <2> QED
    BY <2>1, PartsAssumption, Zenon DEF Pack!PoliciesAssumption
<1>3. c.rule.first \in Nat /\ c.rule.last \in Nat /\ c.rule.first <= c.rule.last
  BY LinesInOrder
<1>4. chunk.first <= c.rule.last /\ c.rule.first <= chunk.last
  BY <1>1 DEF Pack!Overlaps
<1>5. \E line \in Nat : line \in chunk.first .. chunk.last /\ line \in c.rule.first .. c.rule.last
  <2>1. CASE chunk.first <= c.rule.first
    BY <1>2, <1>3, <1>4, <2>1
  <2>2. CASE c.rule.first <= chunk.first
    BY <1>2, <1>3, <1>4, <2>2
  <2> QED
    BY <1>2, <1>3, <2>1, <2>2
<1> QED
  BY <1>1, <1>5

LEMMA DecideKeeps ==
    ASSUME PackInv, NEW asked \in Requests, NEW pinned \in BOOLEAN, NEW index \in Indexes,
           Pack!Decide(asked, pinned, index)
    PROVE  PackInv'
<1> DEFINE Hits == {c \in Pack!CompiledRules : Pack!RuleMatches(c.rule, asked)}
           Cites == IF pinned THEN {Pack!SourceSpan(c) : c \in Hits} ELSE UNION {Pack!Linked(index, c) : c \in Hits}
           Effect == IF Hits = {} THEN "allow"
                     ELSE IF \E c \in Hits : c.rule.effect = "block" THEN "block" ELSE "confirm"
           Broken == index = {} \/ (~pinned /\ \E c \in Hits : Pack!Linked(index, c) = {})
<1>1. /\ reading = "resolved" /\ UNCHANGED <<disk, profile, pinning, reading, loaded>>
      /\ verdict' = [request |-> asked, decision |-> IF Broken THEN "error" ELSE Effect,
                     citations |-> IF Broken THEN {} ELSE Cites]
  BY DEF Pack!Decide
<1>2. Pack!Acceptable
  BY <1>1 DEF PackInv, Positions
<1>3. Pack!Acceptable' /\ Pack!CompiledRules' = Pack!CompiledRules
  BY <1>1, <1>2, AcceptableStays, RulesStay
<1>4. Positions'
  BY <1>1, <1>3 DEF PackInv, Positions, Reading
<1>5. Hits' = Hits
  BY <1>3
<1>6. Hits \subseteq Pack!CompiledRules
  OBVIOUS
<1>7. ASSUME ~Broken, NEW c \in Hits
      PROVE  \E cited \in Cites : cited.policy = c.policy /\ (cited.first .. cited.last) \cap (c.rule.first .. c.rule.last) # {}
  <2>1. CASE pinned
    <3>1. Pack!SourceSpan(c) \in Cites
      BY <1>7, <2>1
    <3>2. c.rule.first \in c.rule.first .. c.rule.last
      BY <1>2, <1>6, <1>7, LinesInOrder
    <3>3. /\ Pack!SourceSpan(c).policy = c.policy
          /\ Pack!SourceSpan(c).first = c.rule.first /\ Pack!SourceSpan(c).last = c.rule.last
      BY DEF Pack!SourceSpan
    <3> QED
      BY <3>1, <3>2, <3>3
  <2>2. CASE ~pinned
    <3>1. PICK chunk \in Pack!Linked(index, c) : TRUE
      BY <1>7, <2>2
    <3>2. chunk \in Cites
      BY <1>7, <2>2, <3>1
    <3> QED
      BY <1>2, <1>6, <1>7, <3>1, <3>2, LineInCommon
  <2> QED
    BY <2>1, <2>2
<1>8. ASSUME NEW cited \in Cites PROVE \E c \in Hits : cited.policy = c.policy
  <2>1. CASE pinned
    BY <1>8, <2>1 DEF Pack!SourceSpan
  <2>2. CASE ~pinned
    BY <1>8, <2>2 DEF Pack!Linked
  <2> QED
    BY <2>1, <2>2
<1>9. Effect = "block" <=> \E c \in Hits : c.rule.effect = "block"
  OBVIOUS
<1>10. Effect = "allow" <=> Hits = {}
  OBVIOUS
<1> HIDE DEF Hits, Cites, Effect, Broken
<1>11. verdict'.request = asked /\ verdict'.decision = IF Broken THEN "error" ELSE Effect
  BY <1>1
<1>12. ~Broken => verdict'.citations = Cites
  BY <1>1
<1>13. Pack!DecisionsFollowRules'
  <2>1. SUFFICES ASSUME (verdict # Pack!NoVerdict)', verdict'.decision # "error"
                 PROVE  /\ verdict'.decision = "block" <=> \E c \in Hits : c.rule.effect = "block"
                        /\ verdict'.decision = "allow" <=> Hits = {}
                        /\ \A c \in Hits : \E cited \in verdict'.citations :
                             /\ cited.policy = c.policy
                             /\ (cited.first .. cited.last) \cap (c.rule.first .. c.rule.last) # {}
                        /\ \A cited \in verdict'.citations : \E c \in Hits : cited.policy = c.policy
    BY <1>3, <1>11 DEF Pack!DecisionsFollowRules, Hits, Pack!RuleMatches
  <2>2. ~Broken /\ verdict'.decision = Effect
    BY <1>11, <2>1
  <2> QED
    BY <1>7, <1>8, <1>9, <1>10, <1>12, <2>2
<1> QED
  BY <1>1, <1>4, <1>13, ProfileStays, LoadedStays DEF PackInv

LEMMA PackSteps == ASSUME PackInv, Pack!Next PROVE PackInv'
BY PackManifestKeeps, PackListKeeps, PackMemberKeeps, PinPackKeeps, PackResolveKeeps, PackEditKeeps, DecideKeeps
   DEF Pack!Next

LEMMA PackStutters == ASSUME PackInv, UNCHANGED <<reading, ofPack>> PROVE PackInv'
<1>1. UNCHANGED <<reading, disk, profile, pinning, listed, got, loaded, verdict>>
  BY DEF ofPack
<1>2. Pack!CompiledRules' = Pack!CompiledRules /\ (Pack!Acceptable' <=> Pack!Acceptable)
  BY <1>1, RulesStay, AcceptableStays
<1>3. Pack!DecisionsFollowRules'
  BY <1>1, <1>2 DEF PackInv, Pack!DecisionsFollowRules, Pack!RuleMatches, Pack!NoVerdict
<1>4. Positions'
  BY <1>1, <1>2 DEF PackInv, Positions, Reading, Pack!NoVerdict, Pack!ManifestOf
<1> QED
  BY <1>1, <1>3, <1>4, ProfileStays, LoadedStays DEF PackInv

LEMMA PackStart == ASSUME Pack!Init PROVE PackInv
<1>1. /\ disk \in [Directories -> Editions] /\ reading = "manifest" /\ loaded = <<>> /\ verdict = Pack!NoVerdict
  BY DEF Pack!Init
<1>2. Listing(<<>>) /\ Len(<<>>) = 0 /\ DOMAIN <<>> = {}
  BY DEF Listing
<1>3. ProfileSound
  <2>1. CASE pinning = FALSE /\ profile \in Profiles
    <3>1. /\ profile.packs \in Seq(Pack!Range(profile.packs)) \ {<<>>}
          /\ profile.decisions \in Seq(Pack!Range(profile.decisions))
          /\ \A i \in DOMAIN profile.packs : profile.packs[i].path \in DOMAIN DirectoryOf
      BY <2>1, PartsAssumption DEF Pack!PoliciesAssumption
    <3>2. Listing(profile.packs) /\ Listing(profile.decisions) /\ Len(profile.packs) > 0
      BY <3>1 DEF Listing, Pack!Range
    <3> QED
      BY <2>1, <3>1, <3>2 DEF ProfileSound
  <2>2. CASE /\ pinning = TRUE
             /\ \E paths \in Selections :
                  profile = [packs |-> [i \in DOMAIN paths |-> Pack!Selected(paths[i])], decisions |-> <<>>,
                             conflicts |-> {}]
    <3>1. PICK paths \in Selections :
             profile = [packs |-> [i \in DOMAIN paths |-> Pack!Selected(paths[i])], decisions |-> <<>>, conflicts |-> {}]
      BY <2>2
    <3>2. paths \in Seq(DOMAIN DirectoryOf) \ {<<>>}
      BY PartsAssumption DEF Pack!PoliciesAssumption
    <3>3. Len(paths) \in Nat /\ Len(paths) > 0 /\ DOMAIN paths = 1 .. Len(paths)
          /\ \A i \in DOMAIN paths : paths[i] \in DOMAIN DirectoryOf
      BY <3>2
    <3> DEFINE chosen == [i \in 1 .. Len(paths) |-> Pack!Selected(paths[i])]
    <3>4. profile.packs = chosen /\ profile.decisions = <<>>
      BY <3>1, <3>3
    <3>5. DOMAIN chosen = 1 .. Len(paths) /\ \A i \in DOMAIN chosen : chosen[i].path \in DOMAIN DirectoryOf
      BY <3>3 DEF Pack!Selected
    <3>6. chosen \in Seq({chosen[i] : i \in DOMAIN chosen}) /\ Len(chosen) = Len(paths)
      BY <3>3, <3>5
    <3>7. Listing(chosen)
      BY <3>3, <3>5, <3>6 DEF Listing
    <3> HIDE DEF chosen
    <3>8. profile = [packs |-> profile.packs, decisions |-> <<>>, conflicts |-> {}]
      BY <3>1
    <3> QED
      BY <1>2, <3>3, <3>4, <3>5, <3>6, <3>7, <3>8 DEF ProfileSound
  <2> QED
    BY <2>1, <2>2 DEF Pack!Init
<1>4. LoadedSound
  BY <1>1, <1>2 DEF LoadedSound
<1>5. Positions
  BY <1>1, <1>2, <1>3 DEF Positions, ProfileSound
<1>6. Pack!DecisionsFollowRules
  BY <1>1, NoDecision
<1> QED
  BY <1>1, <1>3, <1>4, <1>5, <1>6 DEF PackInv

-----------------------------------------------------------------------------
(***************************************************************************)
(* Both, in the run that they share.                                       *)
(***************************************************************************)

\* A behaviour captures, or resolves and decides, or is one of another part.
ContentInv ==
    /\ part = "sources" => SourceInv
    /\ part = "packs" => PackInv

\* Every read, edit and decision keeps what has been seen of the sources and what is
\* pinned, loaded and decided.
THEOREM ContentInvariance == ContentSpec => []ContentInv
<1>1. ContentInit => ContentInv
  BY SourceStart, PackStart DEF ContentInit, ContentInv, Begin
<1>2. ContentInv /\ [ContentNext]_contentVars => ContentInv'
  <2> SUFFICES ASSUME ContentInv, [ContentNext]_contentVars PROVE ContentInv'
    OBVIOUS
  <2>1. CASE InSources(Sources!Next)
    BY <2>1, SourceSteps DEF ContentInv, InSources
  <2>2. CASE InPack(Pack!Next)
    BY <2>2, PackSteps DEF ContentInv, InPack
  <2>3. CASE UNCHANGED contentVars
    <3>1. UNCHANGED <<part, past, profiled, step, pass, selected, taken, declared, members, contents, notice, captured,
                      expected, snapshot, since>>
      BY <2>3 DEF contentVars, ofSources
    <3>2. UNCHANGED <<reading, ofPack>>
      BY <2>3 DEF contentVars
    <3>3. SourceInv => SourceInv'
      BY <3>1 DEF SourceInv, SourceTypes, HistoryInv, Progress, Previewing, SecondPass, FirstCapture, Began,
         Capturing, Underway, Size, Low, Place, Sources!CapturedTogether, Sources!PublishedIsFresh, Sources!Selection
    <3>4. PackInv => PackInv'
      BY <3>2, PackStutters
    <3> QED
      BY <3>1, <3>3, <3>4 DEF ContentInv
  <2>4. ASSUME InDocument(Document!Next) \/ InSearch(Search!Next) \/ InAnswer(Answer!Next) \/ InSuite(Suite!Next)
        PROVE  part \notin {"sources", "packs"} /\ part' = part
    BY <2>4 DEF InDocument, InSearch, InAnswer, InSuite
  <2> QED
    BY <2>1, <2>2, <2>3, <2>4 DEF ContentNext, ContentInv
<1> QED
  BY <1>1, <1>2, PTL DEF ContentSpec

\* SourceCapture: what is captured was there all at once, and what is published still
\* was when the publisher had the writer lock, whatever edits happen between the reads.
THEOREM CaptureSafety == ContentSpec => []CapturesAreWhole
<1>1. ContentInv => CapturesAreWhole
  BY DEF ContentInv, SourceInv, CapturesAreWhole
<1> QED
  BY <1>1, ContentInvariance, PTL

\* EffectivePolicies: what is effective is what was reviewed, the rules do not contradict
\* each other, and a decision follows and cites the rules that match.
THEOREM PolicySafety == ContentSpec => []ReviewedPoliciesDecide
<1>1. ContentInv => ReviewedPoliciesDecide
  BY AcceptedIsReviewed, AcceptedAgrees DEF ContentInv, PackInv, ReviewedPoliciesDecide
<1> QED
  BY <1>1, ContentInvariance, PTL

=============================================================================
