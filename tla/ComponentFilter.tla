--------------------------- MODULE ComponentFilter --------------------------
(***************************************************************************)
(* The filters that choose the components of a package for a command: by   *)
(* operating system, by request (inspect, remove, mirror) and for a        *)
(* deployment, where groups, defaults and prompts come in.  A filter       *)
(* returns indices into the components it was given.                       *)
(***************************************************************************)
EXTENDS Integers, SequencesExt

\* What came of a filter: the indices it keeps, or an error.
Kept(indices) == [err |-> "", indices |-> indices]
Refused(err) == [err |-> err, indices |-> << >>]

Indices(components, Test(_)) ==
    SelectSeq([i \in DOMAIN components |-> i], LAMBDA i : Test(components[i]))

\* Mutated: the first request that matches counts, with or without a dash.
FirstMatch(name, requests) ==
    LET hits == Indices(requests, LAMBDA r : name \in r.names)
    IN  IF hits = << >> THEN [state |-> "unknown", by |-> {}]
        ELSE [state |-> IF requests[hits[1]].not THEN "excluded" ELSE "included",
              by |-> {requests[hits[1]]}]

\* A request is a pattern, given as the names it matches, with or without a
\* dash; exclusions come before inclusions and the first match counts.
includedOrExcluded(name, requests) ==
    LET hits(no) == Indices(requests, LAMBDA r : r.not = no /\ name \in r.names)
    IN  IF hits(TRUE) # << >> THEN [state |-> "excluded", by |-> {requests[hits(TRUE)[1]]}]
        ELSE IF hits(FALSE) # << >> THEN [state |-> "included", by |-> {requests[hits(FALSE)[1]]}]
        ELSE [state |-> "unknown", by |-> {}]

ByLocalOS(components, os) == Kept(Indices(components, LAMBDA c : c.os \in {"", os}))

BySelectState(components, requests) ==
    Kept(Indices(components, LAMBDA c :
        requests = << >> \/ includedOrExcluded(c.name, requests).state = "included"))

-----------------------------------------------------------------------------
(* ForDeploy.                                                              *)

GroupKey(c) == IF c.group # "" THEN c.group ELSE c.name

\* The groups in the order of their first component.
Groups(components) ==
    LET keys == FoldLeft(LAMBDA acc, c : IF Contains(acc, GroupKey(c)) THEN acc
                                         ELSE Append(acc, GroupKey(c)),
                         << >>, components)
    IN  [g \in DOMAIN keys |-> Indices(components, LAMBDA c : GroupKey(c) = keys[g])]

\* Mutated: a request decides about the components that are required too.
PartialByRequest(components, group, requests) ==
    LET state(i) == includedOrExcluded(components[i].name, requests).state
    IN  Kept(SelectSeq(group, LAMBDA i : state(i) = "included"))

\* With requests: what is required or included, or else the default.
PartialGroup(components, group, requests) ==
    LET state(i) == IF components[i].required THEN "included"
                    ELSE includedOrExcluded(components[i].name, requests).state
        selected == SelectSeq(group, LAMBDA i : state(i) = "included")
        defaults == SelectSeq(group, LAMBDA i : state(i) = "unknown" /\ components[i].default)
    IN  IF Len(selected) > 1 THEN Refused("MultipleSameGroup")
        ELSE IF selected # << >> THEN Kept(selected)
        ELSE IF defaults # << >> THEN Kept(<<defaults[1]>>)
        ELSE IF Len(group) > 1 THEN Refused("NoDefaultOrSelection")
        ELSE Kept(<< >>)

\* Without requests or prompts: the default of a group, a component that is
\* required or default.
PlainGroup(components, group) ==
    LET defaults == SelectSeq(group, LAMBDA i : components[i].default)
    IN  IF Len(group) > 1
        THEN IF defaults # << >> THEN Kept(<<defaults[1]>>) ELSE Refused("NoDefaultOrSelection")
        ELSE Kept(SelectSeq(group, LAMBDA i : components[i].required \/ components[i].default))

\* With prompts: the user chooses one of a group, and answers for a component
\* that is optional; a default is kept whatever the answer.
PromptGroup(components, group, yes) ==
    IF Len(group) > 1
    THEN LET chosen == SelectSeq(group, LAMBDA i : components[i].name \in yes)
         IN  IF Len(chosen) = 1 THEN Kept(chosen) ELSE Refused("SelectionCanceled")
    ELSE Kept(SelectSeq(group, LAMBDA i :
            components[i].required \/ components[i].name \in yes \/ components[i].default))

Unmatched(components, requests) ==
    {requests[r] : r \in DOMAIN requests}
        \ UNION {includedOrExcluded(components[i].name, requests).by : i \in DOMAIN components}

\* mode is "requests", "plain" or "prompt"; yes are the names said yes to.
ForDeploy(components, mode, requests, yes) ==
    LET groups == Groups(components)
        result(g) == IF mode = "requests" THEN PartialGroup(components, groups[g], requests)
                     ELSE IF mode = "prompt" THEN PromptGroup(components, groups[g], yes)
                     ELSE PlainGroup(components, groups[g])
        bad == {g \in DOMAIN groups : result(g).err # ""}
    IN  IF bad # {} THEN Refused(result(CHOOSE g \in bad : \A h \in bad : g <= h).err)
        ELSE IF mode = "requests" /\ Unmatched(components, requests) # {} THEN Refused("NotFound")
        ELSE Kept(FlattenSeq([g \in DOMAIN groups |-> result(g).indices]))

-----------------------------------------------------------------------------
At1(seq, indices) == [i \in DOMAIN indices |-> seq[indices[i]]]

\* Mutated: the indices of the second filter are taken for those of the package.
LeadNowhere(first, indices) == indices

\* The indices of the second filter, which saw what the first one kept, are led
\* back to the package.
LeadBack(first, indices) == At1(first, indices)

\* comboFilter.Apply: what a second filter makes of what the first one kept.
Combine(first, second) == [second EXCEPT !.indices = LeadBack(first.indices, @)]

=============================================================================
