--------------------------- MODULE IncrementalFont ---------------------------
(***************************************************************************)
(* A client extends the font that the compiler made.  The client is not    *)
(* part of the repository: ift/client/fontations_client.cc and the tests   *)
(* run one which follows the IFT specification.  Of the entries that match *)
(* what is asked for it applies the first patch of one that invalidates    *)
(* the whole font, if there is one, else of one that invalidates a part of *)
(* it, reads the new maps, and goes on; the glyph keyed patches come last. *)
(* Which of several matching entries it takes is left open.                *)
(***************************************************************************)
EXTENDS Compiler

CONSTANT Client               \* the definitions a client may ask for

ASSUME ClientAssumption == Client \subseteq Definition

VARIABLES target,             \* what is asked for: more and more
          font,
          client              \* waiting, extending, extended
client_vars == <<target, font, client>>
vars == <<request, context, stack, status, target, font, client>>

-----------------------------------------------------------------------------
(***************************************************************************)
(* A table keyed patch (ift/table_keyed_diff.cc) fits a font with the      *)
(* compatibility id and the tables that it was made from, as far as it     *)
(* changes them.  Replaced tables can have been anything.                  *)
(***************************************************************************)
Fits(f, patch) ==
    /\ f.ift.compat = patch.compat
    /\ f.ift = patch.base.ift
    /\ f.subset = patch.base.subset
    /\ f.round_trip = patch.base.round_trip
    /\ patch.mode = "whole" => f = patch.base

Apply(f, patch) ==
    LET r == patch.result
        kept == [f EXCEPT !.ift = r.ift, !.subset = r.subset,
                          !.round_trip = r.round_trip]
    IN  IF patch.mode = "whole" THEN r
        ELSE IF patch.mode = "replace"
        THEN [kept EXCEPT !.gvar = r.gvar, !.iftx = r.iftx]
        ELSE kept

\* a font that has been led so far, led on by a patch
Load(led, id) ==
    IF /\ led.ok
       /\ id \in DOMAIN context.patches
       /\ Fits(led.font, context.patches[id])
    THEN [led EXCEPT !.font = Apply(@, context.patches[id])]
    ELSE [led EXCEPT !.ok = FALSE]

\* what the first k of the patches ids make of f, for each k
Follow(f, ids) ==
    LET led[k \in 0 .. Len(ids)] ==
            IF k = 0 THEN [ok |-> TRUE, font |-> f] ELSE Load(led[k - 1], ids[k])
    IN  led

Entries(f) == ToSet(f.ift.entries)
Matching(f) == {e \in Entries(f) : \A s \in e.segments : Intersects(target, s)}
Candidates(f) ==
    LET full == {e \in Matching(f) : e.encoding = "FULL"}
    IN  IF full # {} THEN full ELSE Matching(f)

MatchingGlyphs == {id \in DOMAIN request.glyph_conditions :
                      Intersects(target, request.glyph_conditions[id])}

GlyphUrl(f, id) == <<f.iftx.patch_set.url, id>>
GlyphPatchFits(f, id) ==
    /\ GlyphUrl(f, id) \in DOMAIN context.glyph_patches
    /\ context.glyph_patches[GlyphUrl(f, id)].compat = f.iftx.patch_set.compat

-----------------------------------------------------------------------------
InitAll == /\ Init
           /\ target = Nothing
           /\ font = CutSubset(InitSubset)
           /\ client = "waiting"

Open == /\ client = "waiting" /\ status = "done"
        /\ font' = InitFont
        /\ client' = "extending"
        /\ UNCHANGED target

Ask == /\ client = "extended"
       /\ target' \in {d \in Client : Includes(d, target) /\ d # target}
       /\ client' = "extending"
       /\ UNCHANGED font

ApplyTableKeyed ==
    /\ client = "extending"
    /\ \E e \in Candidates(font) :
          LET r == Load([ok |-> TRUE, font |-> font], Head(e.patches))
          IN  r.ok /\ font' = r.font
    /\ UNCHANGED <<target, client>>

ApplyGlyphKeyed ==
    /\ client = "extending"
    /\ Matching(font) = {}
    /\ \E id \in MatchingGlyphs \ font.iftx.applied :
          LET space == context.glyph_patches[GlyphUrl(font, id)].design_space
          IN  /\ GlyphPatchFits(font, id)
              /\ font' = [font EXCEPT !.glyf = Put(@, id, DefaultPosition(space)),
                                      !.gvar = Put(@, id, space),
                                      !.iftx.applied = @ \cup {id}]
    /\ UNCHANGED <<target, client>>

FinishExtension ==
    /\ client = "extending"
    /\ Matching(font) = {}
    /\ MatchingGlyphs \subseteq font.iftx.applied
    /\ client' = "extended"
    /\ UNCHANGED <<target, font>>

ClientNext == Open \/ ApplyTableKeyed \/ ApplyGlyphKeyed \/ FinishExtension

Next == \/ CompilerNext /\ UNCHANGED client_vars
        \/ (ClientNext \/ Ask) /\ UNCHANGED compiler_vars

Stopped == client = "extended" /\ UNCHANGED vars

Spec == InitAll /\ [][Next \/ Stopped]_vars

-----------------------------------------------------------------------------
FontOK(f) ==
    /\ f.subset \in Definition
    /\ f.round_trip \in BOOLEAN
    /\ \A id \in DOMAIN f.glyf : f.glyf[id] \in [Axis -> Position]
    /\ \A id \in DOMAIN f.gvar : f.gvar[id] \in DesignSpace
    /\ DOMAIN f.glyf \cup DOMAIN f.gvar \subseteq {Base} \cup DOMAIN request.glyph_conditions
    /\ f.ift.compat \in 0 .. context.next_compat_id
    /\ f.ift.entries \in Seq([segments : SUBSET Definition, patches : Seq(Nat \ {0}),
                              encoding : {"FULL", "PARTIAL"}])
    /\ f.iftx.patch_set \in [url : Nat, compat : 0 .. context.next_compat_id]
    /\ f.iftx.applied \subseteq DOMAIN request.glyph_conditions

TypeOK ==
    /\ request \in Input
    /\ FontOK(font)
    /\ target \in Client \cup {Nothing}
    /\ client \in {"waiting", "extending", "extended"}
    /\ status \in {"start", "compiling", "done", "failed", "undefined"}
    /\ \A k \in DOMAIN stack :
          /\ stack[k].edges \in Seq(Seq(Definition \ {Nothing}))
          /\ FontOK(stack[k].current.font)
    /\ \A node \in DOMAIN context.built_subsets :
          node \in Definition /\ FontOK(context.built_subsets[node].font)
    /\ \A id \in DOMAIN context.patches : FontOK(context.patches[id].result)
    /\ context.table_keyed_patch_id \in
          [DOMAIN context.table_keyed_patch_id -> Nat \ {0}]

Ext == INSTANCE Extension WITH
    subset <- font.subset,
    extended <- client = "extended"

(***************************************************************************)
(* No call returns an error or reads the first patch of no patches.        *)
(***************************************************************************)
NoInternalError == status \notin {"failed", "undefined"}

(***************************************************************************)
(* Compile enters built_subsets_ only after the recursion: all the same    *)
(* the recursion never comes back to a node it is working on, each node on *)
(* the way down has more than the one above.                               *)
(***************************************************************************)
RecursionDescends ==
    \A k \in 2 .. Len(stack) :
        /\ Includes(stack[k - 1].own.node, stack[k].own.node)
        /\ stack[k - 1].own.node # stack[k].own.node

(***************************************************************************)
(* Whatever a client has loaded, each entry of its table keyed map leads,  *)
(* by all its patches one after the other, to a font with all the segments *)
(* of the entry: each patch exists, was made from just this font and has   *)
(* its compatibility id.  A prefetched patch is no dead end, and no patch  *)
(* is loaded in vain: each adds to the subset.  So an extension ends, as   *)
(* the client is never without a step (the deadlock check).                *)
(***************************************************************************)
PatchesApply ==
    client # "waiting" =>
        \A e \in Entries(font) :
            LET led == Follow(font, e.patches)
                end == led[Len(e.patches)]
            IN  /\ end.ok
                /\ end.font.subset = Ext!UnionAll(font.subset, e.segments)
                /\ \A k \in DOMAIN e.patches :
                      /\ Includes(led[k].font.subset, led[k - 1].font.subset)
                      /\ led[k].font.subset # led[k - 1].font.subset

(***************************************************************************)
(* Each glyph keyed patch in the map of the font exists, has the           *)
(* compatibility id of the map, and was cut for the font's design space.   *)
(***************************************************************************)
GlyphPatchesFit ==
    client # "waiting" =>
        \A id \in DOMAIN request.glyph_conditions :
            /\ GlyphPatchFits(font, id)
            /\ context.glyph_patches[GlyphUrl(font, id)].design_space
                  = font.subset.design_space

(***************************************************************************)
(* No design space of a request leaves the default position out, except    *)
(* that an extension may when the initial subset has the axis.             *)
(***************************************************************************)
HoldsDefault(space, x) == Covers(space[x], <<AxisDefault[x], AxisDefault[x]>>)

DefaultsStay(r) ==
    /\ \A x \in DOMAIN r.init.design_space : HoldsDefault(r.init.design_space, x)
    /\ \A s \in Ext!Extensions(r) :
          \A x \in DOMAIN s.design_space \ DOMAIN r.init.design_space :
              HoldsDefault(s.design_space, x)

(***************************************************************************)
(* When the extension is over, the outlines of all that was asked for are  *)
(* those of the font's design space, whichever way the design space was    *)
(* extended and in whichever order patches of both kinds came: of all      *)
(* requests with DefaultsStay.  No patch replaces outlines in glyf, so     *)
(* without it they stay where the default position has been moved to.      *)
(***************************************************************************)
OutlinesMatch ==
    client = "extended" =>
        \A id \in {Base} \cup MatchingGlyphs :
            /\ font.glyf[id] = DefaultPosition(font.subset.design_space)
            /\ font.gvar[id] = font.subset.design_space

(***************************************************************************)
(* The font can be extended by any combination of the extension subsets,   *)
(* and loads nothing else (Extension).                                     *)
(***************************************************************************)
ImplementsExtension == Ext!Spec
=============================================================================
