------------------------------ MODULE LakePatch ------------------------------
(***************************************************************************)
(* Where update_doc cuts a document (lake-document.ts, called by           *)
(* previewUpdateDoc, buildUpdatedLake and currentTargetFingerprint of      *)
(* change-store.ts).                                                       *)
(*                                                                         *)
(* A document is one string of tags and text.  The code scans it once into *)
(* its top-level blocks, finds the end of the last block or the one        *)
(* section a heading names, and cuts and joins the string there.  What it  *)
(* shows and what it binds the preview to is the same part of the string.  *)
(*                                                                         *)
(* A document is a sequence of tokens <<kind, name>>: "open" and "close"   *)
(* tags, a "void" or self-closing element, a "comment" (or a <! or <? tag) *)
(* and "text".  Attributes, entities and blanks are left out; a "card" or  *)
(* an "img" stands for every proprietary element the code looks for.       *)
(***************************************************************************)
EXTENDS Integers, Sequences, FiniteSets, FiniteSetsExt, SequencesExt

CONSTANTS
    Documents,      \* the documents a session may start from
    Requests,       \* [mode, heading, fragment] a client may ask for
    Colleague(_),   \* the documents one edit in Yuque's editor leads to
    MaxEdits        \* bound: edits by the colleague

VARIABLES
    lake,           \* the document's content
    request,        \* what the preview was asked for
    bound,          \* [lake, target] the preview is bound to
    view,           \* the texts before and after that the preview showed
    lakePhase,      \* idle, previewed, refused, conflict or written
    changes

lakeVars == <<lake, request, bound, view, lakePhase, changes>>

-----------------------------------------------------------------------------
\* scanTopLevelBlocks: a fold over the tokens with a stack of open tags

Kind(token) == token[1]
Tag(token)  == token[2]

\* removeRanges: the ranges, by their starts, and a cursor set behind each of them
RemoveRanges(doc, ranges) ==
    LET Step(st, range) == << st[1] \o SubSeq(doc, st[2], range.start - 1),
                              range.end + 1 >>
        last == FoldLeft(Step, << <<>>, 1 >>,
                         SetToSortSeq(ranges, LAMBDA x, y : x.start < y.start))
    IN  last[1] \o SubSeq(doc, last[2], Len(doc))

ScanToken(doc, st, i) ==
    LET token == doc[i] IN
    CASE ~st.ok -> st
      [] Kind(token) = "text" -> st
      [] Kind(token) = "comment" ->
           [st EXCEPT !.ignored = @ \cup {[start |-> i, end |-> i]}]
      [] Kind(token) = "close" ->
           IF st.stack = <<>> \/ Last(st.stack) # Tag(token)
           THEN [st EXCEPT !.ok = FALSE]
           ELSE IF Len(st.stack) > 1 THEN [st EXCEPT !.stack = Front(@)]
           ELSE [st EXCEPT !.stack = <<>>,
                           !.blocks = Append(@, [tag |-> Tag(token), start |-> st.root, end |-> i])]
      [] Kind(token) = "void" ->
           IF st.stack # <<>> THEN st
           ELSE [st EXCEPT !.blocks = Append(@, [tag |-> Tag(token), start |-> i, end |-> i])]
      [] Kind(token) = "open" ->
           [st EXCEPT !.root = IF st.stack = <<>> THEN i ELSE @,
                      !.stack = Append(@, Tag(token))]

\* [ok, blocks]: not ok where the code throws
ScanTopLevelBlocks(doc) ==
    LET Outside(st) == RemoveRanges(doc,
                         {[start |-> b.start, end |-> b.end] : b \in Range(st.blocks)}
                           \cup st.ignored)
        Scanned(st) == [ok |-> st.ok /\ st.stack = <<>> /\ Outside(st) = <<>>,
                        blocks |-> st.blocks]
    IN  Scanned(FoldLeft(LAMBDA s, i : ScanToken(doc, s, i),
                         [ok |-> TRUE, blocks |-> <<>>, stack |-> <<>>, root |-> 0,
                          ignored |-> {}],
                         [i \in DOMAIN doc |-> i]))

-----------------------------------------------------------------------------
Raw(doc, block) == SubSeq(doc, block.start, block.end)

LakeText(tokens) == SelectSeq(tokens, LAMBDA token : Kind(token) = "text")

HeadingLevel(tag) == CASE tag = "h1" -> 1 [] tag = "h2" -> 2 [] OTHER -> 0

\* normalizedFragment: the blocks without the converter's meta elements
NormalizedFragment(fragment) ==
    LET Normalized(blocks) ==
          FlattenSeq([i \in DOMAIN blocks |->
                       IF blocks[i].tag = "meta" THEN <<>> ELSE Raw(fragment, blocks[i])])
    IN  Normalized(ScanTopLevelBlocks(fragment).blocks)

Matches(doc, blocks, heading) ==
    { i \in DOMAIN blocks : /\ HeadingLevel(blocks[i].tag) # 0
                            /\ LakeText(Raw(doc, blocks[i])) = heading }

\* A plausible bug: only a heading of the same level ends a section.
MutantSectionEnd(doc, blocks, m) ==
    LET closers == { i \in DOMAIN blocks :
                       i > m /\ HeadingLevel(blocks[i].tag) = HeadingLevel(blocks[m].tag) }
    IN  IF closers = {} THEN Len(doc) ELSE blocks[Min(closers)].start - 1

SectionEnd(doc, blocks, m) ==
    LET closers == { i \in DOMAIN blocks :
                       /\ i > m
                       /\ HeadingLevel(blocks[i].tag) \in 1 .. HeadingLevel(blocks[m].tag) }
    IN  IF closers = {} THEN Len(doc) ELSE blocks[Min(closers)].start - 1

\* findUniqueSection, of a heading that has exactly one match
FindUniqueSection(doc, blocks, heading) ==
    LET Section(m, end) ==
          [ start      |-> blocks[m].start,
            level      |-> HeadingLevel(blocks[m].tag),
            headingRaw |-> Raw(doc, blocks[m]),
            bodyStart  |-> blocks[m].end + 1,
            bodyRaw    |-> SubSeq(doc, blocks[m].end + 1, end),
            raw        |-> SubSeq(doc, blocks[m].start, end),
            end        |-> end ]
        match == CHOOSE i \in Matches(doc, blocks, heading) : TRUE
    IN  Section(match, SectionEnd(doc, blocks, match))

ProprietaryBlockTypes(tokens) ==
    {Tag(tokens[i]) : i \in {j \in DOMAIN tokens : Kind(tokens[j]) \in {"open", "void"}}}
      \cap {"card", "img"}

SafeTopLevelTags == {"h1", "h2", "p", "hr", "table"}

UnknownTopLevelTags(tokens) ==
    {b.tag : b \in Range(ScanTopLevelBlocks(tokens).blocks)} \ (SafeTopLevelTags \cup {"meta"})

MayCut(section) ==
    /\ ProprietaryBlockTypes(section.bodyRaw) = {}
    /\ ScanTopLevelBlocks(section.bodyRaw).ok
    /\ UnknownTopLevelTags(section.bodyRaw) = {}

-----------------------------------------------------------------------------
\* planLakePatch: [ok, lakeContent, target, before, after]

Refusal == [ok |-> FALSE]

PlanAppend(doc, blocks, fragment) ==
    LET anchor == IF blocks = <<>> THEN <<>> ELSE Raw(doc, Last(blocks))
        at     == IF blocks = <<>> THEN Len(doc) ELSE Last(blocks).end
    IN  IF fragment = <<>> THEN Refusal
        ELSE [ ok |-> TRUE, target |-> anchor,
               lakeContent |-> SubSeq(doc, 1, at) \o fragment \o SubSeq(doc, at + 1, Len(doc)),
               before |-> LakeText(anchor), after |-> LakeText(anchor) \o LakeText(fragment) ]

PlanDelete(doc, section, req) ==
    LET next == SubSeq(doc, 1, section.start - 1) \o SubSeq(doc, section.end + 1, Len(doc))
    IN  IF \A b \in Range(ScanTopLevelBlocks(next).blocks) : b.tag = "meta" THEN Refusal
        ELSE [ ok |-> TRUE, target |-> section.raw, lakeContent |-> next,
               before |-> req.heading \o LakeText(section.bodyRaw), after |-> <<>> ]

TooHigh(section, fragment) ==
    \E b \in Range(ScanTopLevelBlocks(fragment).blocks) :
       HeadingLevel(b.tag) \in 1 .. section.level

PlanReplace(doc, section, req, fragment) ==
    IF fragment = <<>> \/ TooHigh(section, fragment) THEN Refusal
    ELSE [ ok |-> TRUE, target |-> section.raw,
           lakeContent |-> SubSeq(doc, 1, section.bodyStart - 1) \o fragment
                             \o SubSeq(doc, section.end + 1, Len(doc)),
           before |-> req.heading \o LakeText(section.bodyRaw),
           after  |-> req.heading \o LakeText(fragment) ]

\* A fragment that cannot be scanned is refused as an empty one is.
Insertable(fragment) ==
    IF ScanTopLevelBlocks(fragment).ok THEN NormalizedFragment(fragment) ELSE <<>>

PlanSection(doc, section, req) ==
    IF ~MayCut(section) THEN Refusal
    ELSE IF req.mode = "delete_section" THEN PlanDelete(doc, section, req)
    ELSE PlanReplace(doc, section, req, Insertable(req.fragment))

PlanLakePatch(doc, req) ==
    LET Planned(scan) ==
          IF ~scan.ok THEN Refusal
          ELSE IF req.mode = "append" THEN PlanAppend(doc, scan.blocks, Insertable(req.fragment))
          ELSE IF Cardinality(Matches(doc, scan.blocks, req.heading)) # 1 THEN Refusal
          ELSE PlanSection(doc, FindUniqueSection(doc, scan.blocks, req.heading), req)
    IN  Planned(ScanTopLevelBlocks(doc))

\* lakeTargetFingerprint: <<>> where the code throws
LakeTarget(doc, req) ==
    LET Target(scan) ==
          IF ~scan.ok THEN <<>>
          ELSE IF req.mode = "append"
          THEN << IF scan.blocks = <<>> THEN <<>> ELSE Raw(doc, Last(scan.blocks)) >>
          ELSE IF Cardinality(Matches(doc, scan.blocks, req.heading)) # 1 THEN <<>>
          ELSE << FindUniqueSection(doc, scan.blocks, req.heading).raw >>
    IN  Target(ScanTopLevelBlocks(doc))

-----------------------------------------------------------------------------
Init ==
    /\ lake \in Documents
    /\ request = <<>> /\ bound = <<>> /\ view = <<>>
    /\ lakePhase = "idle" /\ changes = 0

\* previewUpdateDoc, the first time and when the confirm asks for a new look
Show(req) ==
    \E plan \in {PlanLakePatch(lake, req)} :
        IF plan.ok
        THEN /\ request' = req
             /\ bound' = [lake |-> lake, target |-> <<plan.target>>]
             /\ view' = <<plan.before, plan.after>>
             /\ lakePhase' = "previewed"
        ELSE /\ lakePhase' = "refused"
             /\ UNCHANGED <<request, bound, view>>

PreviewUpdateDoc ==
    /\ lakePhase = "idle"
    /\ \E req \in Requests : Show(req)
    /\ UNCHANGED <<lake, changes>>

\* External: a colleague saves another content.
EditInYuque ==
    /\ lakePhase = "previewed" /\ changes < MaxEdits
    /\ lake' \in Colleague(lake)
    /\ changes' = changes + 1
    /\ UNCHANGED <<request, bound, view, lakePhase>>

\* executeUpdate on the content of the preview: buildUpdatedLake plans it again
WriteLake ==
    /\ lakePhase = "previewed" /\ lake = bound.lake
    /\ lake' = PlanLakePatch(lake, request).lakeContent
    /\ lakePhase' = "written"
    /\ UNCHANGED <<request, bound, view, changes>>

RepreviewLake ==
    /\ lakePhase = "previewed" /\ lake # bound.lake
    /\ LakeTarget(lake, request) = bound.target
    /\ Show(request)
    /\ UNCHANGED <<lake, changes>>

\* ... when the target changed, and when the section is gone or ambiguous: an error
ConflictLake ==
    /\ lakePhase = "previewed" /\ lake # bound.lake
    /\ LakeTarget(lake, request) # bound.target
    /\ lakePhase' = "conflict"
    /\ UNCHANGED <<lake, request, bound, view, changes>>

Next ==
    \/ PreviewUpdateDoc \/ EditInYuque
    \/ WriteLake \/ RepreviewLake \/ ConflictLake

Spec == Init /\ [][Next]_lakeVars

-----------------------------------------------------------------------------
\* Properties

\* The reference does not scan: how many tags are open behind a token, and whether a
\* stretch of tokens is closed in itself, every close answering the last open.
Depth(doc, n) == Cardinality({i \in 1 .. n : Kind(doc[i]) = "open"})
                   - Cardinality({i \in 1 .. n : Kind(doc[i]) = "close"})

WellNested(doc) ==
    /\ \A n \in 0 .. Len(doc) : Depth(doc, n) >= 0
    /\ Depth(doc, Len(doc)) = 0
    /\ \A i \in DOMAIN doc : Kind(doc[i]) = "text" => Depth(doc, i) > 0
    /\ \A i, j \in DOMAIN doc :
         /\ i < j /\ Kind(doc[i]) = "open" /\ Kind(doc[j]) = "close"
         /\ Depth(doc, j) = Depth(doc, i) - 1
         /\ \A k \in i .. j - 1 : Depth(doc, k) >= Depth(doc, i)
         => Tag(doc[i]) = Tag(doc[j])

\* the levels of the headings that begin at the top level of a stretch
Levels(tokens) ==
    { HeadingLevel(Tag(tokens[i])) : i \in {j \in DOMAIN tokens :
        Kind(tokens[j]) = "open" /\ Depth(tokens, j) = 1} } \ {0}

IsHeading(tokens, text) ==
    /\ tokens # <<>> /\ Kind(tokens[1]) = "open" /\ HeadingLevel(Tag(tokens[1])) # 0
    /\ Depth(tokens, Len(tokens)) = 0
    /\ \A n \in 1 .. Len(tokens) - 1 : Depth(tokens, n) > 0
    /\ LakeText(tokens) = text

\* the document is pre, the heading, its body and post: the body has no heading at or
\* above it, and post begins with one
IsSection(doc, text, h, b, p) ==
    LET heading == SubSeq(doc, h, b - 1)
        level   == HeadingLevel(Tag(doc[h]))
        post    == SubSeq(doc, p, Len(doc))
    IN  /\ IsHeading(heading, text) /\ Depth(doc, h - 1) = 0 /\ Depth(doc, p - 1) = 0
        /\ Levels(SubSeq(doc, b, p - 1)) \cap 1 .. level = {}
        /\ post # <<>> => /\ Kind(post[1]) = "open"
                          /\ HeadingLevel(Tag(post[1])) \in 1 .. level

\* A confirmed update_doc leaves every token outside the place it names where it was:
\* an append adds the fragment behind the last block, a replacement puts it between
\* the heading and the next heading at or above its level, a deletion takes heading
\* and body and leaves a document with content.  What is written is well nested, and
\* a replacement adds no heading at or above the section it stands in.
LakeWrittenAsAsked ==
    [][ lakePhase' = "written" /\ lakePhase # "written" =>
          LET frag == NormalizedFragment(request.fragment)
              Cut(from, to) == SubSeq(lake, from, to)
          IN  /\ WellNested(lake')
              /\ request.mode = "append" =>
                   \E at \in 0 .. Len(lake) :
                      /\ Depth(lake, at) = 0
                      /\ \A i \in at + 1 .. Len(lake) : Kind(lake[i]) = "comment"
                      /\ at > 0 => Kind(lake[at]) # "comment" \/ at = Len(lake)
                      /\ lake' = Cut(1, at) \o frag \o Cut(at + 1, Len(lake))
              /\ request.mode # "append" =>
                   \E h \in DOMAIN lake : \E b \in h + 1 .. Len(lake) + 1 :
                     \E p \in b .. Len(lake) + 1 :
                       /\ IsSection(lake, request.heading, h, b, p)
                       /\ request.mode = "replace_section" =>
                            /\ lake' = Cut(1, b - 1) \o frag \o Cut(p, Len(lake))
                            /\ IsSection(lake', request.heading, h, b, b + Len(frag))
                       /\ request.mode = "delete_section" =>
                            /\ lake' = Cut(1, h - 1) \o Cut(p, Len(lake))
                            /\ \E i \in DOMAIN lake' :
                                  Kind(lake'[i]) # "comment" /\ Tag(lake'[i]) # "meta"
      ]_lakeVars

\* No confirmed update_doc takes a card or an image away: a section that has one
\* anywhere below its heading is neither replaced nor deleted.  A deletion may take
\* those inside the heading itself, which the code does not look at.
NativeBlocksKept ==
    [][ lakePhase' = "written" /\ lakePhase # "written" =>
          LET Native(doc) == {i \in DOMAIN doc : Tag(doc[i]) \in {"card", "img"}}
              InHeading(i) == \E j \in 1 .. i - 1 :
                                 /\ Kind(lake[j]) = "open" /\ HeadingLevel(Tag(lake[j])) # 0
                                 /\ \A k \in j .. i : Depth(lake, k) > 0
          IN  Cardinality(Native(lake')) >=
                Cardinality(IF request.mode = "delete_section"
                            THEN {i \in Native(lake) : ~InHeading(i)} ELSE Native(lake))
      ]_lakeVars

\* "Something outside the target changed": when the confirm says so and plans the
\* patch again, the texts it shows are the ones already approved.
LakeNewLookShowsTheSame ==
    [][ lakePhase = "previewed" /\ lakePhase' = "previewed" /\ bound' # bound
          => view' = view ]_lakeVars
=============================================================================
