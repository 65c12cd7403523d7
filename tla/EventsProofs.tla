---------------------------- MODULE EventsProofs ----------------------------
(***************************************************************************)
(* The invariants of EventDates and of EventResolution, proved for any     *)
(* managers, guests, purchases, stock and bounds.                          *)
(***************************************************************************)
EXTENDS EventDates, EventResolution, SumTheorems

-----------------------------------------------------------------------------
(***************************************************************************)
(* EventDates                                                              *)
(***************************************************************************)
-----------------------------------------------------------------------------
(* The inductive invariant.                                                *)

\* The row before it exists, and its dates afterwards.
NightExists ==
    /\ night.status = "NONE" => /\ night.version = 0 /\ night.image = NoImage
                                /\ pictures.used = {} /\ pictures.queued = {}
                                /\ \A g \in Guests : purchase[g] = "none"
                                /\ \A m \in Managers : edit[m].step = "idle"
    /\ night.status # "NONE" => Parses(night)

\* What an edit knows: dates that parse, and the image of the version it read.
EditKnows(m) ==
    /\ edit[m].step # "idle" /\ edit[m].redated => Parses(edit[m].dates)
    /\ edit[m].step = "locking" =>
         /\ edit[m].version <= night.version
         /\ edit[m].version = night.version => edit[m].saw = night.image

\* A buyer whose order was closed knows the dates, too, until they change.
KnowsUnlessRevived ==
    \A g \in Guests : purchase[g] # "none" /\ g \notin revived => knows[g] = DatesOf(night)

EventDatesIInv ==
    /\ EventDatesTypeOK /\ TicketsFollowTheEvent /\ ImagesAreAccounted
    /\ NightExists /\ KnowsUnlessRevived
    /\ \A m \in Managers : EditKnows(m)

-----------------------------------------------------------------------------
(* Facts of several steps.                                                 *)

\* The dates of a row, as a record of their own.
LEMMA DatesOfANight ==
    ASSUME EventDatesTypeOK
    PROVE  /\ DatesOf(night) \in Dates
           /\ DatesOf(night).starts = night.starts /\ DatesOf(night).ends = night.ends
BY DEF EventDatesTypeOK, DatesOf, Dates

\* An update of the row has its type, and no edit that read it before can
\* mistake it for what it read.
LEMMA WriteTypes ==
    ASSUME EventDatesIInv,
           NEW s \in {"DRAFT", "PUBLISHED", "SALE_ACTIVE", "POSTPONED"},
           NEW d, d.starts \in Hours, d.ends \in Hours, NEW i \in Images \cup {NoImage},
           WriteNight(s, d, i)
    PROVE  /\ night' \in [status : {"NONE", "DRAFT", "PUBLISHED", "SALE_ACTIVE", "POSTPONED"},
                          starts : Hours, ends : Hours, image : Images \cup {NoImage},
                          version : 0..MaxVersions]
           /\ night'.status = s /\ night'.starts = d.starts /\ night'.ends = d.ends
           /\ night'.image = i /\ night'.version = night.version + 1
           /\ \A m \in Managers : edit'[m] = edit[m] => EditKnows(m)'
<1>1. night.version \in 0..MaxVersions
  BY DEF EventDatesIInv, EventDatesTypeOK
<1>2. /\ night'.status = s /\ night'.starts = d.starts /\ night'.ends = d.ends
      /\ night'.image = i /\ night'.version = night.version + 1
  BY DEF WriteNight
<1>3. night.version + 1 \in 0..MaxVersions
  BY <1>1, EventDatesAssumption DEF WriteNight
<1>4. night' \in [status : {"NONE", "DRAFT", "PUBLISHED", "SALE_ACTIVE", "POSTPONED"},
                  starts : Hours, ends : Hours, image : Images \cup {NoImage},
                  version : 0..MaxVersions]
  BY <1>3 DEF WriteNight
<1>5. ASSUME NEW m \in Managers, edit'[m] = edit[m] PROVE EditKnows(m)'
  <2>1. EditKnows(m) /\ edit[m].version \in 0..MaxVersions
    BY DEF EventDatesIInv, EventDatesTypeOK
  <2>2. edit[m].step = "locking" => edit[m].version < night'.version
    BY <1>1, <1>2, <2>1 DEF EditKnows
  <2>3. QED
    BY <1>1, <1>2, <1>5, <2>1, <2>2 DEF EditKnows
<1>6. QED
  BY <1>2, <1>4, <1>5

\* A window that is shifted with its event opens with it and ends no later.
LEMMA ShiftFollows ==
    ASSUME EventDatesTypeOK, NEW w \in Dates, w.starts = night.starts, w.starts < w.ends,
           NEW d \in Dates, Parses(d)
    PROVE  LET v == Shifted(w, d.starts - night.starts, d) IN
           /\ v \in Dates /\ v.starts = d.starts
           /\ v.starts < v.ends /\ v.ends <= d.ends
<1> DEFINE delta == d.starts - night.starts
           v == Shifted(w, delta, d)
<1>1. /\ w.starts \in 0..LastHour /\ w.ends \in 0..LastHour
      /\ d.starts \in 0..LastHour /\ d.ends \in 0..LastHour
      /\ d.starts < d.ends
  BY DEF Dates, Hours, Parses
<1>2. w.starts + delta = d.starts /\ w.ends + delta > d.starts /\ w.ends + delta \in Int
  BY <1>1, EventDatesAssumption
<1> HIDE DEF delta
<1>3. v.starts = Least(w.starts + delta, d.ends) /\ v.ends = Least(w.ends + delta, d.ends)
  BY DEF Shifted
<1>4. v.starts = d.starts
  BY <1>1, <1>2, <1>3 DEF Least
<1>5. v.ends \in 0..LastHour /\ v.starts < v.ends /\ v.ends <= d.ends
  BY <1>1, <1>2, <1>3, <1>4, EventDatesAssumption DEF Least
<1>6. v \in Dates
  BY <1>1, <1>4, <1>5 DEF Shifted, Dates, Hours
<1>7. QED
  BY <1>4, <1>5, <1>6 DEF delta

\* An event with purchases exists.
LEMMA BoughtExists ==
    ASSUME EventDatesIInv, NEW g \in Guests, purchase[g] # "none"
    PROVE  night.status # "NONE" /\ Parses(night) /\ HasCommercialHistory
BY DEF EventDatesIInv, NightExists, HasCommercialHistory, BoughtBy

-----------------------------------------------------------------------------
(* The steps.                                                              *)

\* There is no event, edit or purchase at first.
LEMMA InitDates == EventDatesInit => EventDatesIInv
<1> SUFFICES ASSUME EventDatesInit PROVE EventDatesIInv
  OBVIOUS
<1> USE DEF EventDatesInit
<1>1. 0 \in Hours /\ NoDates \in Dates /\ 0 \in 0..MaxVersions
  BY EventDatesAssumption DEF Hours, NoDates, Dates
<1>2. EventDatesTypeOK
  <2>1. night \in [status : {"NONE", "DRAFT", "PUBLISHED", "SALE_ACTIVE", "POSTPONED"},
                   starts : Hours, ends : Hours, image : Images \cup {NoImage},
                   version : 0..MaxVersions]
    BY <1>1 DEF NoNight
  <2>2. NotEditing \in [step : {"idle", "read", "locking"}, redated : BOOLEAN,
                        dates : Dates, image : Images \cup {NoImage, Keep},
                        version : 0..MaxVersions, saw : Images \cup {NoImage}]
    BY <1>1 DEF NotEditing
  <2>3. QED
    BY <1>1, <2>1, <2>2 DEF EventDatesTypeOK
<1>3. TicketsFollowTheEvent /\ ImagesAreAccounted /\ KnowsUnlessRevived
  BY DEF TicketsFollowTheEvent, ImagesAreAccounted, KnowsUnlessRevived, NoNight
<1>4. NightExists /\ \A m \in Managers : EditKnows(m)
  BY DEF NightExists, EditKnows, NoNight, NotEditing
<1>5. QED
  BY <1>2, <1>3, <1>4 DEF EventDatesIInv

\* The event is created; nothing refers to it before.
LEMMA CreateKeeps ==
    ASSUME EventDatesIInv, CreateNight
    PROVE  EventDatesIInv'
<1> USE DEF EventDatesIInv
<1>1. PICK d \in Dates, i \in FreeImages \cup {NoImage} :
        /\ Parses(d) /\ WriteNight("DRAFT", d, i)
        /\ pictures' = [pictures EXCEPT !.used = @ \cup ({i} \ {NoImage})]
  BY DEF CreateNight
<1>2. UNCHANGED <<edit, purchase, window, knows, revived, now>> /\ night.status = "NONE"
  BY DEF CreateNight, PurchasesRest
<1>3. i \in Images \cup {NoImage} /\ d.starts \in Hours /\ d.ends \in Hours
  BY DEF FreeImages, Dates
<1>4. /\ night' \in [status : {"NONE", "DRAFT", "PUBLISHED", "SALE_ACTIVE", "POSTPONED"},
                     starts : Hours, ends : Hours, image : Images \cup {NoImage},
                     version : 0..MaxVersions]
      /\ night'.status = "DRAFT" /\ night'.starts = d.starts /\ night'.ends = d.ends
      /\ night'.image = i
      /\ \A m \in Managers : edit'[m] = edit[m] => EditKnows(m)'
  BY <1>1, <1>3, WriteTypes
<1>5. pictures.used = {} /\ pictures.queued = {} /\ \A g \in Guests : purchase[g] = "none"
  BY <1>2 DEF NightExists
<1>6. pictures'.used = {i} \ {NoImage} /\ pictures'.queued = {}
      /\ pictures' \in [used : SUBSET Images, queued : SUBSET Images]
  BY <1>1, <1>3, <1>5 DEF EventDatesTypeOK
<1>7. EventDatesTypeOK'
  BY <1>2, <1>4, <1>6 DEF EventDatesTypeOK
<1>8. TicketsFollowTheEvent' /\ ImagesAreAccounted' /\ KnowsUnlessRevived'
  BY <1>2, <1>4, <1>5, <1>6 DEF TicketsFollowTheEvent, ImagesAreAccounted, KnowsUnlessRevived
<1>9. NightExists'
  BY <1>1, <1>4 DEF NightExists, Parses
<1>10. QED
  BY <1>2, <1>4, <1>7, <1>8, <1>9

\* The reads of an edit.
LEMMA ReadKeeps ==
    ASSUME EventDatesIInv, NEW m \in Managers, BeginEdit(m) \/ ReadAgain(m) \/ EditFails(m)
    PROVE  EventDatesIInv'
<1> USE DEF EventDatesIInv
<1> DEFINE Edits == [step : {"idle", "read", "locking"}, redated : BOOLEAN,
                     dates : Dates, image : Images \cup {NoImage, Keep},
                     version : 0..MaxVersions, saw : Images \cup {NoImage}]
<1>1. /\ UNCHANGED <<night, pictures, purchase, window, knows, revived, now>>
      /\ night.status # "NONE"
  BY DEF BeginEdit, ReadAgain, EditFails, PurchasesRest, NightExists
<1>2. 0 \in 0..MaxVersions /\ NoDates \in Dates
  BY EventDatesAssumption DEF NoDates, Dates, Hours
<1>3. PICK e \in Edits :
        /\ edit' = [edit EXCEPT ![m] = e]
        /\ e.step # "idle" /\ e.redated => Parses(e.dates)
        /\ e.step = "locking" => e.version = night.version /\ e.saw = night.image
  <2>1. CASE BeginEdit(m)
    <3>1. PICK s \in Hours \cup {-1}, t \in Hours \cup {-1}, i \in FreeImages \cup {NoImage, Keep} :
            LET d == [starts |-> IF s < 0 THEN night.starts ELSE s,
                      ends   |-> IF t < 0 THEN night.ends ELSE t]
                redated == s >= 0 \/ t >= 0 IN
            /\ redated => Parses(d)
            /\ edit' = [edit EXCEPT ![m] =
                           [step |-> "read", redated |-> redated, image |-> i,
                            dates |-> IF redated THEN d ELSE NoDates, version |-> 0,
                            saw |-> NoImage]]
      BY <2>1 DEF BeginEdit
    <3> DEFINE d == [starts |-> IF s < 0 THEN night.starts ELSE s,
                     ends   |-> IF t < 0 THEN night.ends ELSE t]
               redated == s >= 0 \/ t >= 0
               dates == IF redated THEN d ELSE NoDates
               e == [step |-> "read", redated |-> redated, image |-> i, dates |-> dates,
                     version |-> 0, saw |-> NoImage]
    <3>2. d \in Dates
      BY EventDatesAssumption DEF EventDatesTypeOK, Dates, Hours
    <3>3. dates \in Dates /\ redated \in BOOLEAN
      BY <1>2, <3>2
    <3>4. redated => Parses(dates)
      BY <3>1
    <3>5. edit' = [edit EXCEPT ![m] = e]
      BY <3>1
    <3> HIDE DEF redated, dates
    <3>6. e \in Edits
      BY <1>2, <3>3 DEF FreeImages
    <3>7. QED
      BY <3>4, <3>5, <3>6
  <2>2. CASE ReadAgain(m)
    <3> DEFINE e == edit'[m]
    <3>1. edit \in [Managers -> Edits] /\ EditKnows(m) /\ edit[m].step = "read"
      BY <2>2 DEF EventDatesTypeOK, ReadAgain
    <3>2. night.version \in 0..MaxVersions /\ night.image \in Images \cup {NoImage}
      BY DEF EventDatesTypeOK
    <3>3. edit' = [edit EXCEPT ![m].step = "locking", ![m].version = night.version,
                               ![m].saw = night.image]
      BY <2>2 DEF ReadAgain
    <3>4. edit' = [edit EXCEPT ![m] = e]
      BY <3>1, <3>3
    <3>5. /\ e.step = "locking" /\ e.version = night.version /\ e.saw = night.image
          /\ e.redated = edit[m].redated /\ e.dates = edit[m].dates
      BY <3>1, <3>3
    <3>6. e \in Edits
      BY <3>1, <3>2, <3>3
    <3>7. e.redated => Parses(e.dates)
      BY <3>1, <3>5 DEF EditKnows
    <3>8. QED
      BY <3>4, <3>5, <3>6, <3>7
  <2>3. CASE EditFails(m)
    <3>1. NotEditing \in Edits
      BY <1>2 DEF NotEditing
    <3>2. QED
      BY <2>3, <3>1 DEF EditFails, NotEditing
  <2>4. QED
    BY <2>1, <2>2, <2>3
<1>4. EventDatesTypeOK'
  BY <1>1, <1>3 DEF EventDatesTypeOK
<1>5. TicketsFollowTheEvent' /\ ImagesAreAccounted' /\ KnowsUnlessRevived' /\ NightExists'
  BY <1>1 DEF TicketsFollowTheEvent, ImagesAreAccounted, KnowsUnlessRevived, NightExists, DatesOf,
              Parses
<1>6. ASSUME NEW n \in Managers PROVE EditKnows(n)'
  <2>1. edit \in [Managers -> Edits] /\ EditKnows(n) /\ night.version \in 0..MaxVersions
    BY DEF EventDatesTypeOK
  <2>2. CASE n = m
    BY <1>1, <1>3, <2>1, <2>2 DEF EditKnows
  <2>3. CASE n # m
    BY <1>1, <1>3, <2>1, <2>3 DEF EditKnows
  <2>4. QED
    BY <2>2, <2>3
<1>7. QED
  BY <1>4, <1>5, <1>6

\* An edit is written over the version it read, and moves no event that has purchases.
LEMMA CommitKeeps ==
    ASSUME EventDatesIInv, NEW m \in Managers, CommitEdit(m)
    PROVE  EventDatesIInv'
<1> USE DEF EventDatesIInv
<1> DEFINE d == IF edit[m].redated THEN edit[m].dates ELSE DatesOf(night)
           i == IF edit[m].image = Keep THEN night.image ELSE edit[m].image
<1>1. /\ edit[m].step = "locking" /\ edit[m].version = night.version
      /\ edit[m].redated /\ edit[m].dates # DatesOf(night) => ~HasCommercialHistory
      /\ edit[m].image \notin pictures.used
      /\ WriteNight(night.status, d, i)
      /\ pictures' = IF edit[m].image = Keep THEN pictures
                     ELSE [used   |-> pictures.used \cup ({edit[m].image} \ {NoImage}),
                           queued |-> pictures.queued \cup ({edit[m].saw} \ {NoImage})]
      /\ edit' = [edit EXCEPT ![m] = NotEditing]
      /\ UNCHANGED <<purchase, window, knows, revived, now>>
  BY DEF CommitEdit, Unchanged, MayRedate, PurchasesRest
<1>2. /\ edit[m].dates \in Dates /\ edit[m].image \in Images \cup {NoImage, Keep}
      /\ edit[m].redated \in BOOLEAN
      /\ edit[m].saw = night.image /\ night.image \in Images \cup {NoImage}
      /\ edit[m].redated => Parses(edit[m].dates)
      /\ night.status # "NONE" /\ Parses(night)
  BY <1>1 DEF EventDatesTypeOK, EditKnows, NightExists
<1>3. /\ d \in Dates /\ d.starts \in Hours /\ d.ends \in Hours /\ Parses(d)
      /\ HasCommercialHistory => d = DatesOf(night)
  <2>1. CASE edit[m].redated
    BY <1>1, <1>2, <2>1, DatesOfANight DEF Dates
  <2>2. CASE ~edit[m].redated
    BY <1>2, <2>2, DatesOfANight DEF Dates, Parses
  <2>3. QED
    BY <2>1, <2>2
<1>4. i \in Images \cup {NoImage}
  BY <1>2
<1>5. night.status \in {"DRAFT", "PUBLISHED", "SALE_ACTIVE", "POSTPONED"}
  BY <1>2 DEF EventDatesTypeOK
<1> HIDE DEF d
<1>6. /\ night' \in [status : {"NONE", "DRAFT", "PUBLISHED", "SALE_ACTIVE", "POSTPONED"},
                     starts : Hours, ends : Hours, image : Images \cup {NoImage},
                     version : 0..MaxVersions]
      /\ night'.status = night.status /\ night'.starts = d.starts /\ night'.ends = d.ends
      /\ night'.image = i
      /\ \A n \in Managers : edit'[n] = edit[n] => EditKnows(n)'
  BY <1>1, <1>3, <1>4, <1>5, WriteTypes
<1>7. /\ pictures' \in [used : SUBSET Images, queued : SUBSET Images]
      /\ ImagesAreAccounted'
  <2>1. /\ pictures \in [used : SUBSET Images, queued : SUBSET Images]
        /\ pictures.used = pictures.queued \cup ({night.image} \ {NoImage})
        /\ night.image \notin pictures.queued
    BY DEF EventDatesTypeOK, ImagesAreAccounted
  <2>2. CASE edit[m].image = Keep
    BY <1>1, <1>6, <2>1, <2>2 DEF ImagesAreAccounted
  <2>3. CASE edit[m].image # Keep
    <3>1. /\ pictures'.used = pictures.used \cup ({i} \ {NoImage})
          /\ pictures'.queued = pictures.queued \cup ({night.image} \ {NoImage})
          /\ pictures' \in [used : SUBSET Images, queued : SUBSET Images]
      BY <1>1, <1>2, <1>4, <2>1, <2>3
    <3>2. pictures.used = pictures'.queued /\ NoImage \notin pictures'.queued
      BY <2>1, <3>1, EventDatesAssumption
    <3>3. i \notin pictures.used
      BY <1>1, <2>3
    <3>4. QED
      BY <1>6, <3>1, <3>2, <3>3 DEF ImagesAreAccounted
  <2>4. QED
    BY <2>2, <2>3
<1>8. EventDatesTypeOK'
  <2>1. NotEditing \in [step : {"idle", "read", "locking"}, redated : BOOLEAN,
                        dates : Dates, image : Images \cup {NoImage, Keep},
                        version : 0..MaxVersions, saw : Images \cup {NoImage}]
    BY EventDatesAssumption DEF NotEditing, NoDates, Dates, Hours
  <2>2. QED
    BY <1>1, <1>6, <1>7, <2>1 DEF EventDatesTypeOK
<1>9. ASSUME NEW g \in Guests, purchase[g] # "none"
      PROVE  /\ night'.starts = night.starts /\ night'.ends = night.ends
             /\ DatesOf(night)' = DatesOf(night)
  <2>1. d = DatesOf(night)
    BY <1>3, <1>9, BoughtExists
  <2>2. QED
    BY <1>6, <2>1, DatesOfANight DEF DatesOf
<1>10. TicketsFollowTheEvent'
  BY <1>1, <1>9 DEF TicketsFollowTheEvent
<1>11. KnowsUnlessRevived'
  BY <1>1, <1>9 DEF KnowsUnlessRevived
<1>12. NightExists'
  BY <1>2, <1>3, <1>6 DEF NightExists, Parses
<1>13. ASSUME NEW n \in Managers PROVE EditKnows(n)'
  <2>1. edit'[n] = IF n = m THEN NotEditing ELSE edit[n]
    BY <1>1 DEF EventDatesTypeOK
  <2>2. QED
    BY <1>6, <2>1 DEF EditKnows, NotEditing
<1>14. QED
  BY <1>7, <1>8, <1>10, <1>11, <1>12, <1>13

\* The event is put on sale or postponed: its dates and its image stay.
LEMMA StatusKeeps ==
    ASSUME EventDatesIInv, PutOnSale \/ PostponeNight
    PROVE  EventDatesIInv'
<1> USE DEF EventDatesIInv
<1>1. PICK s \in {"DRAFT", "PUBLISHED", "SALE_ACTIVE", "POSTPONED"} : WriteNight(s, night, night.image)
  BY DEF PutOnSale, PostponeNight
<1>2. /\ night.status # "NONE"
      /\ UNCHANGED <<edit, pictures, purchase, window, knows, revived, now>>
  BY DEF PutOnSale, PostponeNight, PurchasesRest
<1>3. night.starts \in Hours /\ night.ends \in Hours /\ night.image \in Images \cup {NoImage}
  BY DEF EventDatesTypeOK
<1>4. /\ night' \in [status : {"NONE", "DRAFT", "PUBLISHED", "SALE_ACTIVE", "POSTPONED"},
                     starts : Hours, ends : Hours, image : Images \cup {NoImage},
                     version : 0..MaxVersions]
      /\ night'.status # "NONE" /\ night'.image = night.image
      /\ night'.starts = night.starts /\ night'.ends = night.ends
      /\ \A m \in Managers : edit'[m] = edit[m] => EditKnows(m)'
  BY <1>1, <1>3, WriteTypes
<1>5. EventDatesTypeOK'
  BY <1>2, <1>4 DEF EventDatesTypeOK
<1>6. TicketsFollowTheEvent' /\ ImagesAreAccounted'
  BY <1>2, <1>4 DEF TicketsFollowTheEvent, ImagesAreAccounted
<1>7. KnowsUnlessRevived' /\ NightExists'
  BY <1>2, <1>4 DEF KnowsUnlessRevived, NightExists, DatesOf, Parses
<1>8. QED
  BY <1>2, <1>4, <1>5, <1>6, <1>7

\* The event is rescheduled: windows move with it, and who may still come is told.
LEMMA RescheduleKeeps ==
    ASSUME EventDatesIInv, RescheduleNight
    PROVE  EventDatesIInv'
<1> USE DEF EventDatesIInv
<1>1. PICK d \in Dates :
        /\ Parses(d) /\ WriteNight("PUBLISHED", d, night.image)
        /\ window' = [g \in Guests |-> IF purchase[g] # "PAID" THEN window[g]
                                       ELSE Shifted(window[g], d.starts - night.starts, d)]
        /\ knows' = [g \in Guests |-> IF Reached(g) THEN d ELSE knows[g]]
  BY DEF RescheduleNight
<1>2. /\ night.status = "POSTPONED"
      /\ revived' = revived \cup {g \in Guests : purchase[g] = "CLOSED"}
      /\ UNCHANGED <<edit, pictures, purchase, now>>
  BY DEF RescheduleNight
<1>3. d.starts \in Hours /\ d.ends \in Hours /\ night.image \in Images \cup {NoImage}
  BY DEF EventDatesTypeOK, Dates
<1>4. /\ night' \in [status : {"NONE", "DRAFT", "PUBLISHED", "SALE_ACTIVE", "POSTPONED"},
                     starts : Hours, ends : Hours, image : Images \cup {NoImage},
                     version : 0..MaxVersions]
      /\ night'.status = "PUBLISHED" /\ night'.image = night.image
      /\ night'.starts = d.starts /\ night'.ends = d.ends
      /\ \A m \in Managers : edit'[m] = edit[m] => EditKnows(m)'
  BY <1>1, <1>3, WriteTypes
<1>5. ASSUME NEW g \in Guests, purchase[g] = "PAID"
      PROVE  /\ window'[g] \in Dates /\ window'[g].starts = d.starts
             /\ window'[g].starts < window'[g].ends /\ window'[g].ends <= d.ends
  <2>1. /\ window[g] \in Dates /\ window[g].starts = night.starts
        /\ window[g].starts < window[g].ends
    BY <1>5 DEF EventDatesTypeOK, TicketsFollowTheEvent
  <2>2. window'[g] = Shifted(window[g], d.starts - night.starts, d)
    BY <1>1, <1>5
  <2>3. QED
    BY <1>1, <2>1, <2>2, ShiftFollows
<1>6. window' \in [Guests -> Dates]
  <2>1. ASSUME NEW g \in Guests PROVE window'[g] \in Dates
    BY <1>1, <1>5 DEF EventDatesTypeOK
  <2>2. QED
    BY <1>1, <2>1
<1>7. EventDatesTypeOK'
  BY <1>1, <1>2, <1>4, <1>6 DEF EventDatesTypeOK
<1>8. TicketsFollowTheEvent'
  BY <1>2, <1>4, <1>5 DEF TicketsFollowTheEvent
<1>9. ImagesAreAccounted'
  BY <1>2, <1>4 DEF ImagesAreAccounted
<1>10. KnowsUnlessRevived'
  <2>1. ASSUME NEW g \in Guests, purchase[g] # "none", g \notin revived'
        PROVE  knows'[g] = DatesOf(night)'
    <3>1. Reached(g)
      BY <1>2, <2>1 DEF EventDatesTypeOK, Reached
    <3>2. knows'[g] = d
      BY <1>1, <3>1
    <3>3. QED
      BY <1>4, <3>2 DEF DatesOf, Dates
  <2>2. QED
    BY <1>2, <2>1 DEF KnowsUnlessRevived
<1>11. NightExists'
  BY <1>1, <1>4 DEF NightExists, Parses
<1>12. QED
  BY <1>2, <1>4, <1>7, <1>8, <1>9, <1>10, <1>11

\* A purchase is made, closed or approved: the dates are those of the event.
LEMMA PurchaseKeeps ==
    ASSUME EventDatesIInv, NEW g \in Guests, BuyTicket(g) \/ CloseOrder(g) \/ ApprovePurchase(g)
    PROVE  EventDatesIInv'
<1> USE DEF EventDatesIInv
<1>1. UNCHANGED <<night, edit, pictures, revived, now>>
  BY DEF BuyTicket, CloseOrder, ApprovePurchase
<1>2. night.status # "NONE" /\ Parses(night)
  BY DEF BuyTicket, CloseOrder, ApprovePurchase, NightExists
<1>3. DatesOf(night) \in Dates
      /\ DatesOf(night).starts = night.starts /\ DatesOf(night).ends = night.ends
  BY DatesOfANight
<1>4. PICK s \in {"PENDING", "CLOSED", "PAID"} : purchase' = [purchase EXCEPT ![g] = s]
  BY DEF BuyTicket, CloseOrder, ApprovePurchase
<1>5. knows' = knows \/ knows' = [knows EXCEPT ![g] = DatesOf(night)]
  BY DEF BuyTicket, CloseOrder, ApprovePurchase
<1>6. EventDatesTypeOK'
  BY <1>1, <1>3, <1>4, <1>5 DEF BuyTicket, CloseOrder, ApprovePurchase, EventDatesTypeOK
<1>7. TicketsFollowTheEvent'
  BY <1>1, <1>2, <1>3
     DEF BuyTicket, CloseOrder, ApprovePurchase, TicketsFollowTheEvent, EventDatesTypeOK, Parses, Hours
<1>8. ImagesAreAccounted'
  BY <1>1 DEF ImagesAreAccounted
<1>9. KnowsUnlessRevived'
  BY <1>1 DEF BuyTicket, CloseOrder, ApprovePurchase, KnowsUnlessRevived, EventDatesTypeOK, DatesOf
<1>10. NightExists' /\ \A m \in Managers : EditKnows(m)'
  BY <1>1, <1>2 DEF NightExists, EditKnows, Parses
<1>11. QED
  BY <1>6, <1>7, <1>8, <1>9, <1>10

\* The clock, and steps that change nothing.
LEMMA RestKeeps ==
    ASSUME EventDatesIInv, HourPasses \/ UNCHANGED eventDatesVars
    PROVE  EventDatesIInv'
<1>1. UNCHANGED <<night, edit, pictures, purchase, window, knows, revived>> /\ now' \in Hours
  BY EventDatesAssumption DEF HourPasses, eventDatesVars, EventDatesIInv, EventDatesTypeOK, Hours
<1>2. QED
  BY <1>1 DEF EventDatesIInv, EventDatesTypeOK, TicketsFollowTheEvent, ImagesAreAccounted,
              NightExists, KnowsUnlessRevived, EditKnows, Parses, DatesOf

-----------------------------------------------------------------------------
(* The theorem.                                                            *)

\* However edits overlap with each other, with purchases, with late approvals and
\* with reschedulings (updateEvent, rescheduleEvent, issueOrderResources): tickets
\* follow their event, buyers know its dates, and no image is forgotten.
THEOREM EventDatesInvariance == EventDatesSpec => []EventDatesInv
<1>1. EventDatesInit => EventDatesIInv
  BY InitDates
<1>2. EventDatesIInv /\ [EventDatesNext]_eventDatesVars => EventDatesIInv'
  BY CreateKeeps, ReadKeeps, CommitKeeps, StatusKeeps, RescheduleKeeps, PurchaseKeeps, RestKeeps
     DEF EventDatesNext
<1>3. EventDatesIInv => EventDatesInv
  BY DEF EventDatesIInv, EventDatesInv, KnowsUnlessRevived, BuyersKnowTheDates
<1>4. QED
  BY <1>1, <1>2, <1>3, PTL DEF EventDatesSpec

-----------------------------------------------------------------------------
(***************************************************************************)
(* EventResolution                                                         *)
(***************************************************************************)
-----------------------------------------------------------------------------
(* The inductive invariant.                                                *)

\* What configure read.
ConfigureReads ==
    /\ configuring \in [snapshot : Snapshots, quantity : Nat, held : Nat]
    /\ configuring.snapshot = "fresh" => ~mapped

\* There is nothing to give before there is a mapping.
NothingBefore == ~mapped => left = 0

\* A snapshot of accept that may still commit is of a purchase that may move.
AcceptKnows ==
    \A p \in Purchases : accepting[p] = "fresh" => bought[p] = "PAID" /\ at[p] = "old"

\* Only a cancelled event has a cancellation.
CancelledHasOne == \A e \in Events : cancellation[e] # "NONE" => event[e] = "CANCELLED"

\* The inductive invariant.
ResolutionIInv ==
    /\ ResolutionTypeOK /\ ReplacementStock /\ NewRightsOnce /\ OrderedIsAuthorized
    /\ ConfigureReads /\ NothingBefore /\ AcceptKnows /\ CancelledHasOne

\* The buyers whose reservation was confirmed.
Confirmed == {b \in Buyers : reservation[b] = "CONFIRMED"}

-----------------------------------------------------------------------------
(* What the purchases add up to, and what the buyers count.                *)

\* The quantity of a set of purchases is a sum.
LEMMA QuantityIs == ASSUME NEW S PROVE QuantityOf(S) = SumOver(Quantity, S)
BY DEF QuantityOf, SumOver

\* The quantity of purchases is a number.
LEMMA QuantityIsNat == ASSUME NEW S, S \subseteq Purchases PROVE QuantityOf(S) \in Nat
<1>1. IsFiniteSet(S) /\ \A x \in S : Quantity[x] \in Nat
    BY ResolutionAssumption, FS_Subset
<1> QED
    BY <1>1, QuantityIs, SumIsNat

\* One more purchase adds its quantity.
LEMMA QuantityWith ==
    ASSUME NEW S, S \subseteq Purchases, NEW p \in Purchases, p \notin S
    PROVE  QuantityOf(S \cup {p}) = Quantity[p] + QuantityOf(S)
<1>1. IsFiniteSet(S) /\ (\A x \in S : Quantity[x] \in Int) /\ Quantity[p] \in Int
    BY ResolutionAssumption, FS_Subset
<1>2. SumOver(Quantity, S \cup {p}) = Quantity[p] + SumOver(Quantity, S)
    BY <1>1, SumWith
<1> QED
    BY <1>2, QuantityIs

\* What is held is a number.
LEMMA HeldIsNat == Held \in Nat
<1>1. IsFiniteSet({b \in Buyers : reservation[b] = "ACTIVE"})
    BY ResolutionAssumption, FS_Subset
<1> QED
    BY <1>1, FS_CardinalityType DEF Held

\* Outdating leaves snapshots; none of them becomes fresh.
LEMMA OutdatedIs ==
    ASSUME NEW s \in Snapshots
    PROVE  Outdated(s) \in Snapshots /\ Outdated(s) # "fresh"
BY DEF Outdated, Snapshots

\* What a commit outdates keeps its type.
LEMMA OutdateTypes ==
    ASSUME ResolutionIInv, Outdate
    PROVE  /\ accepting' \in [Purchases -> Snapshots] /\ \A p \in Purchases : accepting'[p] # "fresh"
           /\ configuring' \in [snapshot : Snapshots, quantity : Nat, held : Nat]
           /\ configuring'.snapshot # "fresh" /\ refusing' = refusing
<1>1. \A p \in Purchases : accepting[p] \in Snapshots
    BY DEF ResolutionIInv, ResolutionTypeOK
<1>2. configuring \in [snapshot : Snapshots, quantity : Nat, held : Nat]
    BY DEF ResolutionIInv, ConfigureReads
<1>3. \A p \in Purchases : Outdated(accepting[p]) \in Snapshots /\ Outdated(accepting[p]) # "fresh"
    BY <1>1, OutdatedIs
<1>4. Outdated(configuring.snapshot) \in Snapshots /\ Outdated(configuring.snapshot) # "fresh"
    BY <1>2, OutdatedIs
<1> QED
    BY <1>2, <1>3, <1>4 DEF Outdate

\* What an order outdates keeps its type.
LEMMA OutdateOrderTypes ==
    ASSUME ResolutionIInv, NEW p \in Purchases, OutdateOrder(p)
    PROVE  /\ accepting' \in [Purchases -> Snapshots] /\ accepting'[p] # "fresh"
           /\ \A q \in Purchases : q # p => accepting'[q] = accepting[q]
           /\ configuring' = configuring /\ refusing' = refusing
<1>1. accepting \in [Purchases -> Snapshots]
    BY DEF ResolutionIInv, ResolutionTypeOK
<1>2. Outdated(accepting[p]) \in Snapshots /\ Outdated(accepting[p]) # "fresh"
    BY <1>1, OutdatedIs
<1> QED
    BY <1>1, <1>2 DEF OutdateOrder

-----------------------------------------------------------------------------
(* Each step keeps it.                                                     *)

\* There is no replacement at first.
LEMMA InitResolution == ResolutionInit => ResolutionIInv
<1> SUFFICES ASSUME ResolutionInit PROVE ResolutionIInv
    OBVIOUS
<1>1. QuantityOf({}) = 0
    BY QuantityIs, SumOfEmpty
<1>2. Confirmed = {}
    BY DEF ResolutionInit, Confirmed
<1>3. ReplacementStock
    <2>1. Cardinality(Confirmed) = 0
        BY <1>2, FS_EmptySet
    <2> QED
        BY <1>1, <2>1, ResolutionAssumption DEF ReplacementStock, ResolutionInit, Confirmed
<1>4. ResolutionTypeOK
    <2>1. /\ event \in [Events -> EventStatuses] /\ clock \in [Events -> {"future", "running", "over"}]
          /\ cancellation \in [Events -> CancellationStatuses]
        BY DEF ResolutionInit, EventStatuses, CancellationStatuses, Events
    <2>2. /\ at \in [Purchases -> Events] /\ issued \in [Purchases -> Nat]
          /\ right \in [Purchases -> [Events -> {"NONE", "AVAILABLE", "USED", "CANCELLED"}]]
          /\ refundJob \in [Purchases -> [Events -> {"NONE", "QUEUED", "COMPLETED"}]]
        BY DEF ResolutionInit, Events
    <2>3. /\ request \in [Purchases -> BuyerRefundStatuses] /\ accepting \in [Purchases -> Snapshots]
          /\ configuring.snapshot \in Snapshots
        BY DEF ResolutionInit, BuyerRefundStatuses, Snapshots, NotConfiguring
    <2> QED
        BY <2>1, <2>2, <2>3 DEF ResolutionInit, ResolutionTypeOK
<1> QED
    BY <1>3, <1>4 DEF ResolutionIInv, ResolutionInit, NewRightsOnce, OrderedIsAuthorized,
       ConfigureReads, NothingBefore, AcceptKnows, CancelledHasOne, NotConfiguring, Snapshots, Events

\* The event moves, but is not cancelled.
LEMMA EventStep ==
    ASSUME ResolutionIInv, NEW e \in Events,
           ChangeStatus(e) \/ PostponeEvent(e) \/ RescheduleEvent(e) \/ TimePasses(e)
    PROVE  ResolutionIInv'
<1> USE DEF ResolutionIInv
<1>1. UNCHANGED <<cancellation, purchaseVars, stockVars>>
    BY DEF ChangeStatus, PostponeEvent, RescheduleEvent, TimePasses
<1>2. Outdate \/ UNCHANGED servingVars
    BY DEF ChangeStatus, PostponeEvent, RescheduleEvent, TimePasses
<1>3. /\ event' \in [Events -> EventStatuses] /\ clock' \in [Events -> {"future", "running", "over"}]
      /\ \A d \in Events : event'[d] = "CANCELLED" <=> event[d] = "CANCELLED"
    BY DEF ChangeStatus, PostponeEvent, RescheduleEvent, TimePasses, ResolutionTypeOK, EventStatuses
<1>4. /\ accepting' \in [Purchases -> Snapshots]
      /\ \A p \in Purchases : accepting'[p] = "fresh" => accepting[p] = "fresh"
      /\ configuring' \in [snapshot : Snapshots, quantity : Nat, held : Nat]
      /\ configuring'.snapshot = "fresh" => configuring.snapshot = "fresh"
      /\ refusing' = refusing
    BY <1>2, OutdateTypes DEF servingVars, ConfigureReads, ResolutionTypeOK
<1>5. ResolutionTypeOK'
    BY <1>1, <1>3, <1>4 DEF ResolutionTypeOK, purchaseVars, stockVars
<1>6. ReplacementStock'
    BY <1>1 DEF ReplacementStock, purchaseVars, stockVars
<1>7. NewRightsOnce' /\ OrderedIsAuthorized'
    BY <1>1, <1>3 DEF NewRightsOnce, OrderedIsAuthorized, Authorized, purchaseVars
<1>8. ConfigureReads' /\ NothingBefore' /\ AcceptKnows' /\ CancelledHasOne'
    BY <1>1, <1>3, <1>4 DEF ConfigureReads, NothingBefore, AcceptKnows, CancelledHasOne,
       purchaseVars, stockVars
<1> QED
    BY <1>5, <1>6, <1>7, <1>8

\* The club cancels: the rights of the event end with it.
LEMMA CancelStep ==
    ASSUME ResolutionIInv, NEW e \in Events, NEW mode \in DOMAIN ModeStatus, CancelWith(e, mode)
    PROVE  ResolutionIInv'
<1> USE DEF ResolutionIInv
<1>0. ModeStatus[mode] \in CancellationStatuses /\ ModeStatus[mode] # "AUTHORIZED"
    BY DEF ModeStatus, CancellationStatuses
<1>1. UNCHANGED <<clock, bought, at, issued, accepted, request, staff, refundJob, stockVars>> /\ Outdate
    BY DEF CancelWith
<1>2. /\ event' = [event EXCEPT ![e] = "CANCELLED"] /\ event[e] # "CANCELLED"
      /\ cancellation' = [cancellation EXCEPT ![e] = ModeStatus[mode]]
      /\ right' = [p \in Purchases |-> [right[p] EXCEPT ![e] = IF @ = "AVAILABLE" THEN "CANCELLED" ELSE @]]
    BY DEF CancelWith
<1>3. /\ accepting' \in [Purchases -> Snapshots] /\ \A p \in Purchases : accepting'[p] # "fresh"
      /\ configuring' \in [snapshot : Snapshots, quantity : Nat, held : Nat]
      /\ configuring'.snapshot # "fresh" /\ refusing' = refusing
    BY <1>1, OutdateTypes
<1>4. /\ \A p \in Purchases, d \in Events :
             right'[p][d] = IF d = e /\ right[p][d] = "AVAILABLE" THEN "CANCELLED" ELSE right[p][d]
      /\ right' \in [Purchases -> [Events -> {"NONE", "AVAILABLE", "USED", "CANCELLED"}]]
    BY <1>2 DEF ResolutionTypeOK
<1>5. ResolutionTypeOK'
    BY <1>0, <1>1, <1>2, <1>3, <1>4 DEF ResolutionTypeOK, stockVars, EventStatuses
<1>6. ReplacementStock'
    BY <1>1 DEF ReplacementStock, stockVars
<1>7. NewRightsOnce'
    BY <1>1, <1>2, <1>4 DEF NewRightsOnce, ResolutionTypeOK
<1>8. OrderedIsAuthorized'
    <2>1. cancellation[e] = "NONE"
        BY <1>2 DEF CancelledHasOne
    <2> QED
        BY <2>1, <1>1, <1>2 DEF OrderedIsAuthorized, Authorized, ResolutionTypeOK
<1>9. ConfigureReads' /\ NothingBefore' /\ AcceptKnows' /\ CancelledHasOne'
    BY <1>1, <1>2, <1>3 DEF ConfigureReads, NothingBefore, AcceptKnows, CancelledHasOne,
       ResolutionTypeOK, stockVars
<1> QED
    BY <1>5, <1>6, <1>7, <1>8, <1>9

\* The cancellation is asked for again, or reviewed.
LEMMA ReviewStep ==
    ASSUME ResolutionIInv, NEW e \in Events, RequestCancellationRefund(e) \/ ReviewCancellation(e)
    PROVE  ResolutionIInv'
<1> USE DEF ResolutionIInv
<1>1. UNCHANGED <<event, clock, purchaseVars, stockVars>> /\ Outdate
    BY DEF RequestCancellationRefund, ReviewCancellation
<1>2. PICK s \in {"PENDING_BEERRY", "AUTHORIZED", "REJECTED"} :
          cancellation' = [cancellation EXCEPT ![e] = s]
    BY DEF RequestCancellationRefund, ReviewCancellation
<1>3. /\ accepting' \in [Purchases -> Snapshots] /\ \A p \in Purchases : accepting'[p] # "fresh"
      /\ configuring' \in [snapshot : Snapshots, quantity : Nat, held : Nat]
      /\ configuring'.snapshot # "fresh" /\ refusing' = refusing
    BY <1>1, OutdateTypes
<1>4. cancellation[e] # "NONE" /\ cancellation[e] # "AUTHORIZED"
    BY DEF RequestCancellationRefund, ReviewCancellation
<1>5. ResolutionTypeOK'
    BY <1>1, <1>2, <1>3 DEF ResolutionTypeOK, purchaseVars, stockVars, CancellationStatuses
<1>6. ReplacementStock'
    BY <1>1 DEF ReplacementStock, purchaseVars, stockVars
<1>7. NewRightsOnce'
    BY <1>1 DEF NewRightsOnce, purchaseVars
<1>8. OrderedIsAuthorized'
    BY <1>1, <1>2, <1>4 DEF OrderedIsAuthorized, Authorized, ResolutionTypeOK, purchaseVars
<1>9. ConfigureReads' /\ NothingBefore' /\ AcceptKnows' /\ CancelledHasOne'
    BY <1>1, <1>2, <1>3, <1>4 DEF ConfigureReads, NothingBefore, AcceptKnows, CancelledHasOne,
       ResolutionTypeOK, purchaseVars, stockVars
<1> QED
    BY <1>5, <1>6, <1>7, <1>8, <1>9

\* A purchase is paid, expires or is refunded: its own snapshots are outdated.
LEMMA OrderStep ==
    ASSUME ResolutionIInv, NEW p \in Purchases, PayPurchase(p) \/ ExpirePurchase(p) \/ RefundPurchase(p)
    PROVE  ResolutionIInv'
<1> USE DEF ResolutionIInv
<1>1. UNCHANGED <<eventVars, at, issued, accepted, request, staff, refundJob, stockVars>> /\ OutdateOrder(p)
    BY DEF PayPurchase, ExpirePurchase, RefundPurchase
<1>2. PICK s \in {"PAID", "EXPIRED", "REFUNDED"} :
          /\ bought' = [bought EXCEPT ![p] = s]
          /\ s = "REFUNDED" => RefundPurchase(p)
    BY DEF PayPurchase, ExpirePurchase, RefundPurchase
<1>3. /\ accepting' \in [Purchases -> Snapshots] /\ accepting'[p] # "fresh"
      /\ \A q \in Purchases : q # p => accepting'[q] = accepting[q]
      /\ configuring' = configuring /\ refusing' = refusing
    BY <1>1, OutdateOrderTypes
<1>4. /\ right' \in [Purchases -> [Events -> {"NONE", "AVAILABLE", "USED", "CANCELLED"}]]
      /\ \A q \in Purchases, d \in Events :
            /\ q # p => right'[q][d] = right[q][d]
            /\ event[d] = "CANCELLED" \/ (RefundPurchase(p) /\ q = p) => right'[q][d] # "AVAILABLE"
    <2>0. right \in [Purchases -> [Events -> {"NONE", "AVAILABLE", "USED", "CANCELLED"}]]
          /\ \A q \in Purchases, d \in Events : event[d] = "CANCELLED" => right[q][d] # "AVAILABLE"
        BY DEF ResolutionTypeOK, NewRightsOnce
    <2>1. CASE PayPurchase(p)
        BY <2>0, <2>1 DEF PayPurchase, RefundPurchase, RightsOf, Events
    <2>2. CASE ExpirePurchase(p)
        BY <2>0, <2>2 DEF ExpirePurchase, RefundPurchase
    <2>3. CASE RefundPurchase(p)
        <3>1. right' = [right EXCEPT ![p] = [e \in Events |-> IF right[p][e] = "AVAILABLE" THEN "CANCELLED"
                                                              ELSE right[p][e]]]
            BY <2>3 DEF RefundPurchase
        <3> QED
            BY <2>0, <3>1
    <2> QED
        BY <2>1, <2>2, <2>3
<1>5. ResolutionTypeOK'
    BY <1>1, <1>2, <1>3, <1>4 DEF ResolutionTypeOK, eventVars, stockVars, ConfigureReads
<1>6. ReplacementStock'
    BY <1>1 DEF ReplacementStock, stockVars
<1>7. NewRightsOnce'
    BY <1>1, <1>2, <1>4 DEF NewRightsOnce, ResolutionTypeOK, eventVars
<1>8. OrderedIsAuthorized'
    BY <1>1 DEF OrderedIsAuthorized, Authorized, eventVars
<1>9. ConfigureReads' /\ NothingBefore' /\ AcceptKnows' /\ CancelledHasOne'
    BY <1>1, <1>2, <1>3 DEF ConfigureReads, NothingBefore, AcceptKnows, CancelledHasOne,
       ResolutionTypeOK, eventVars, stockVars
<1> QED
    BY <1>5, <1>6, <1>7, <1>8, <1>9

\* A right is used, and the staff asks for a refund.
LEMMA StaffStep ==
    ASSUME ResolutionIInv, NEW p \in Purchases, StaffAsks(p) \/ \E e \in Events : UseRight(p, e)
    PROVE  ResolutionIInv'
<1> USE DEF ResolutionIInv
<1>1. UNCHANGED <<eventVars, bought, at, issued, accepted, request, refundJob, stockVars, servingVars>>
    BY DEF StaffAsks, UseRight
<1>2. staff' \subseteq Purchases
    BY DEF StaffAsks, UseRight, ResolutionTypeOK
<1>3. /\ right' \in [Purchases -> [Events -> {"NONE", "AVAILABLE", "USED", "CANCELLED"}]]
      /\ \A q \in Purchases, d \in Events : right'[q][d] = "AVAILABLE" => right[q][d] = "AVAILABLE"
    <2>1. CASE StaffAsks(p)
        BY <2>1 DEF StaffAsks, ResolutionTypeOK
    <2>2. ASSUME NEW e \in Events, UseRight(p, e)
          PROVE  /\ right' \in [Purchases -> [Events -> {"NONE", "AVAILABLE", "USED", "CANCELLED"}]]
                 /\ \A q \in Purchases, d \in Events :
                        right'[q][d] = "AVAILABLE" => right[q][d] = "AVAILABLE"
        BY <2>2 DEF UseRight, ResolutionTypeOK
    <2> QED
        BY <2>1, <2>2
<1>4. ResolutionTypeOK'
    BY <1>1, <1>2, <1>3 DEF ResolutionTypeOK, eventVars, stockVars, servingVars
<1>5. ReplacementStock'
    BY <1>1 DEF ReplacementStock, stockVars
<1>6. NewRightsOnce'
    BY <1>1, <1>3 DEF NewRightsOnce, eventVars
<1>7. OrderedIsAuthorized'
    BY <1>1 DEF OrderedIsAuthorized, Authorized, eventVars
<1>8. ConfigureReads' /\ NothingBefore' /\ AcceptKnows' /\ CancelledHasOne'
    BY <1>1 DEF ConfigureReads, NothingBefore, AcceptKnows, CancelledHasOne, eventVars, stockVars, servingVars
<1> QED
    BY <1>4, <1>5, <1>6, <1>7, <1>8

\* The buyers of the replacement.
LEMMA BuyerStep ==
    ASSUME ResolutionIInv, NEW b \in Buyers, ReserveNew(b) \/ ConfirmNew(b) \/ ReleaseNew(b)
    PROVE  ResolutionIInv'
<1> USE DEF ResolutionIInv
<1>1. UNCHANGED <<eventVars, purchaseVars, mapped, left, setAside>>
    BY DEF ReserveNew, ConfirmNew, ReleaseNew
<1>2. Outdate \/ UNCHANGED servingVars
    BY DEF ReserveNew, ConfirmNew, ReleaseNew
<1>3. /\ accepting' \in [Purchases -> Snapshots]
      /\ \A p \in Purchases : accepting'[p] = "fresh" => accepting[p] = "fresh"
      /\ configuring' \in [snapshot : Snapshots, quantity : Nat, held : Nat]
      /\ configuring'.snapshot = "fresh" => configuring.snapshot = "fresh"
      /\ refusing' = refusing
    BY <1>2, OutdateTypes DEF servingVars, ConfigureReads, ResolutionTypeOK
<1>4. PICK s \in {"ACTIVE", "CONFIRMED", "RELEASED"} :
          /\ reservation' = [reservation EXCEPT ![b] = s]
          /\ s = "CONFIRMED" => ConfirmNew(b)
          /\ s # "CONFIRMED" => sold' = sold
    BY DEF ReserveNew, ConfirmNew, ReleaseNew
<1>5. reservation[b] # "CONFIRMED"
    BY DEF ReserveNew, ConfirmNew, ReleaseNew
<1>6. sold \in Nat /\ setAside \in Nat /\ sold' \in Nat
    BY <1>4 DEF ResolutionTypeOK, ConfirmNew
<1>7. ResolutionTypeOK'
    BY <1>1, <1>3, <1>4, <1>6 DEF ResolutionTypeOK, eventVars, purchaseVars
<1>8. IsFiniteSet(Confirmed) /\ QuantityOf(accepted) \in Nat
    BY ResolutionAssumption, FS_Subset, QuantityIsNat DEF Confirmed, ResolutionTypeOK
<1>9. Cardinality(Confirmed) \in Nat
    BY <1>8, FS_CardinalityType
<1>10. accepted' = accepted
    BY <1>1 DEF purchaseVars
<1>11. CASE s # "CONFIRMED"
    <2>1. Confirmed' = Confirmed
        BY <1>4, <1>5, <1>11 DEF Confirmed, ResolutionTypeOK
    <2>2. ReplacementStock'
        BY <1>1, <1>4, <1>10, <1>11, <2>1 DEF ReplacementStock, Confirmed
    <2> QED
        BY <2>2, <1>1, <1>3, <1>7 DEF NewRightsOnce, OrderedIsAuthorized, Authorized, ConfigureReads,
           NothingBefore, AcceptKnows, CancelledHasOne, eventVars, purchaseVars
<1>12. CASE s = "CONFIRMED"
    <2>1. Confirmed' = Confirmed \cup {b} /\ b \notin Confirmed
        BY <1>4, <1>5, <1>12 DEF Confirmed, ResolutionTypeOK
    <2>2. Cardinality(Confirmed') = Cardinality(Confirmed) + 1
        BY <2>1, <1>8, FS_AddElement
    <2>3. sold' = sold + 1 /\ Total - sold - setAside >= 1
        BY <1>4, <1>12 DEF ConfirmNew
    <2>4. sold = Cardinality(Confirmed) + QuantityOf(accepted) /\ setAside = left
        BY DEF ReplacementStock, Confirmed
    <2>5. sold' = Cardinality(Confirmed') + QuantityOf(accepted')
        BY <2>2, <2>3, <2>4, <1>8, <1>9, <1>10
    <2>6. sold' + setAside' <= Total /\ setAside' = left'
        BY <1>1, <1>6, <2>3, <2>4, ResolutionAssumption
    <2>7. ReplacementStock'
        BY <2>5, <2>6 DEF ReplacementStock, Confirmed
    <2> QED
        BY <2>7, <1>1, <1>3, <1>7 DEF NewRightsOnce, OrderedIsAuthorized, Authorized, ConfigureReads,
           NothingBefore, AcceptKnows, CancelledHasOne, eventVars, purchaseVars
<1> QED
    BY <1>11, <1>12

\* configure begins, fails or commits.
LEMMA ConfigureStep ==
    ASSUME ResolutionIInv, BeginConfigure \/ ConfigureFails
    PROVE  ResolutionIInv'
<1> USE DEF ResolutionIInv
<1>1. UNCHANGED <<eventVars, purchaseVars, stockVars, accepting, refusing>>
    BY DEF BeginConfigure, ConfigureFails
<1>2. /\ configuring' \in [snapshot : Snapshots, quantity : Nat, held : Nat]
      /\ configuring'.snapshot = "fresh" => ~mapped
    <2>1. CASE BeginConfigure
        <3> DEFINE eligible == {p \in Purchases : at[p] = "old" /\ bought[p] \in {"PENDING", "PAID"}}
        <3>1. QuantityOf(eligible) \in Nat
            BY QuantityIsNat
        <3>2. configuring' = [snapshot |-> "fresh", quantity |-> QuantityOf(eligible), held |-> Held]
              /\ ~mapped
            BY <2>1 DEF BeginConfigure
        <3> HIDE DEF eligible
        <3> QED
            BY <3>1, <3>2, HeldIsNat DEF Snapshots
    <2>2. CASE ConfigureFails
        BY <2>2 DEF ConfigureFails, NotConfiguring, Snapshots
    <2> QED
        BY <2>1, <2>2
<1>3. ResolutionTypeOK'
    BY <1>1, <1>2 DEF ResolutionTypeOK, eventVars, purchaseVars, stockVars
<1>4. ReplacementStock'
    BY <1>1 DEF ReplacementStock, purchaseVars, stockVars
<1>5. NewRightsOnce' /\ OrderedIsAuthorized'
    BY <1>1 DEF NewRightsOnce, OrderedIsAuthorized, Authorized, eventVars, purchaseVars
<1>6. ConfigureReads' /\ NothingBefore' /\ AcceptKnows' /\ CancelledHasOne'
    BY <1>1, <1>2 DEF ConfigureReads, NothingBefore, AcceptKnows, CancelledHasOne, eventVars,
       purchaseVars, stockVars
<1> QED
    BY <1>3, <1>4, <1>5, <1>6

\* The mapping is written if what was read of it still stands.
LEMMA CommitConfigureStep ==
    ASSUME ResolutionIInv, CommitConfigure
    PROVE  ResolutionIInv'
<1> USE DEF ResolutionIInv
<1>1. UNCHANGED <<eventVars, purchaseVars, sold, reservation, refusing>>
    BY DEF CommitConfigure
<1>2. /\ configuring.quantity \in Nat /\ configuring.held \in Nat /\ ~mapped
    BY DEF CommitConfigure, ConfigureReads
<1>3. /\ mapped' = TRUE /\ left' = configuring.quantity
      /\ setAside' = setAside + configuring.quantity
      /\ Total - sold - setAside - configuring.held >= configuring.quantity
      /\ configuring' = NotConfiguring
    BY DEF CommitConfigure
<1>4. left = 0 /\ setAside = 0 /\ sold \in Nat
    BY <1>2 DEF NothingBefore, ReplacementStock, ResolutionTypeOK
<1>5. left' \in Nat /\ setAside' = left' /\ sold' + setAside' <= Total
    BY <1>1, <1>2, <1>3, <1>4, ResolutionAssumption
<1>6. /\ accepting' \in [Purchases -> Snapshots]
      /\ \A p \in Purchases : accepting'[p] # "fresh"
    BY OutdatedIs DEF CommitConfigure, ResolutionTypeOK
<1>7. configuring' \in [snapshot : Snapshots, quantity : Nat, held : Nat] /\ configuring'.snapshot = "none"
    BY <1>3 DEF NotConfiguring, Snapshots
<1>8. ResolutionTypeOK'
    BY <1>1, <1>3, <1>5, <1>6, <1>7 DEF ResolutionTypeOK, eventVars, purchaseVars
<1>9. ReplacementStock'
    BY <1>1, <1>5 DEF ReplacementStock, purchaseVars
<1>10. NewRightsOnce' /\ OrderedIsAuthorized'
    BY <1>1 DEF NewRightsOnce, OrderedIsAuthorized, Authorized, eventVars, purchaseVars
<1>11. ConfigureReads' /\ NothingBefore' /\ AcceptKnows' /\ CancelledHasOne'
    BY <1>1, <1>3, <1>6, <1>7 DEF ConfigureReads, NothingBefore, AcceptKnows, CancelledHasOne, eventVars
<1> QED
    BY <1>8, <1>9, <1>10, <1>11

\* Stock that was set aside is freed: a closed proposal, a purchase refunded.
LEMMA ReleaseStep ==
    ASSUME ResolutionIInv,
           ReleaseClosed \/ \E p \in Purchases, e \in Events : CompleteRefund(p, e)
    PROVE  ResolutionIInv'
<1> USE DEF ResolutionIInv
<1>1. UNCHANGED <<eventVars, bought, at, right, issued, accepted, request, staff, mapped, sold, reservation>>
    BY DEF ReleaseClosed, CompleteRefund, purchaseVars
<1>2. Outdate \/ UNCHANGED servingVars
    BY DEF ReleaseClosed, CompleteRefund
<1>3. /\ accepting' \in [Purchases -> Snapshots]
      /\ \A p \in Purchases : accepting'[p] = "fresh" => accepting[p] = "fresh"
      /\ configuring' \in [snapshot : Snapshots, quantity : Nat, held : Nat]
      /\ configuring'.snapshot = "fresh" => configuring.snapshot = "fresh"
      /\ refusing' = refusing
    BY <1>2, OutdateTypes DEF servingVars, ConfigureReads, ResolutionTypeOK
<1>4. left \in Nat /\ setAside = left /\ sold \in Nat
    BY DEF ResolutionTypeOK, ReplacementStock
<1>5. left' \in Nat /\ setAside' = left' /\ left' <= left
    <2>1. CASE ReleaseClosed
        BY <1>4, <2>1 DEF ReleaseClosed
    <2>2. ASSUME NEW p \in Purchases, NEW e \in Events, CompleteRefund(p, e)
          PROVE  left' \in Nat /\ setAside' = left' /\ left' <= left
        <3>1. Quantity[p] \in Nat
            BY ResolutionAssumption
        <3> QED
            BY <1>4, <2>2, <3>1 DEF CompleteRefund
    <2> QED
        BY <2>1, <2>2
<1>6. /\ refundJob' \in [Purchases -> [Events -> {"NONE", "QUEUED", "COMPLETED"}]]
      /\ \A p \in Purchases, e \in Events : refundJob'[p][e] # "NONE" => refundJob[p][e] # "NONE"
    <2>1. CASE ReleaseClosed
        BY <2>1 DEF ReleaseClosed, purchaseVars, ResolutionTypeOK
    <2>2. ASSUME NEW p \in Purchases, NEW e \in Events, CompleteRefund(p, e)
          PROVE  /\ refundJob' \in [Purchases -> [Events -> {"NONE", "QUEUED", "COMPLETED"}]]
                 /\ \A q \in Purchases, d \in Events :
                        refundJob'[q][d] # "NONE" => refundJob[q][d] # "NONE"
        BY <2>2 DEF CompleteRefund, ResolutionTypeOK
    <2> QED
        BY <2>1, <2>2
<1>7. ResolutionTypeOK'
    BY <1>1, <1>3, <1>5, <1>6 DEF ResolutionTypeOK, eventVars
<1>8. sold' + setAside' <= Total
    BY <1>1, <1>4, <1>5, ResolutionAssumption DEF ReplacementStock
<1>9. ReplacementStock'
    BY <1>1, <1>5, <1>8 DEF ReplacementStock
<1>10. NewRightsOnce'
    BY <1>1 DEF NewRightsOnce, eventVars
<1>11. OrderedIsAuthorized'
    BY <1>1, <1>6 DEF OrderedIsAuthorized, Authorized, eventVars
<1>12. NothingBefore'
    BY <1>1, <1>4, <1>5 DEF NothingBefore
<1>13. ConfigureReads' /\ AcceptKnows' /\ CancelledHasOne'
    BY <1>1, <1>3 DEF ConfigureReads, AcceptKnows, CancelledHasOne, eventVars
<1> QED
    BY <1>7, <1>9, <1>10, <1>11, <1>12, <1>13

\* accept and requestReplacementRefund begin, or fail.
LEMMA BeginStep ==
    ASSUME ResolutionIInv, NEW p \in Purchases, BeginAccept(p) \/ AcceptFails(p) \/ BeginRefuse(p)
    PROVE  ResolutionIInv'
<1> USE DEF ResolutionIInv
<1>1. UNCHANGED <<eventVars, purchaseVars, stockVars, configuring>>
    BY DEF BeginAccept, AcceptFails, BeginRefuse
<1>2. refusing' \subseteq Purchases
    BY DEF BeginAccept, AcceptFails, BeginRefuse, ResolutionTypeOK
<1>3. accepting' \in [Purchases -> Snapshots]
    BY DEF BeginAccept, AcceptFails, BeginRefuse, ResolutionTypeOK, Snapshots
<1>4. AcceptKnows'
    BY <1>1 DEF BeginAccept, AcceptFails, BeginRefuse, AcceptKnows, ResolutionTypeOK, purchaseVars
<1>5. ResolutionTypeOK'
    BY <1>1, <1>2, <1>3 DEF ResolutionTypeOK, eventVars, purchaseVars, stockVars
<1>6. ReplacementStock'
    BY <1>1 DEF ReplacementStock, purchaseVars, stockVars
<1>7. NewRightsOnce' /\ OrderedIsAuthorized'
    BY <1>1 DEF NewRightsOnce, OrderedIsAuthorized, Authorized, eventVars, purchaseVars
<1>8. ConfigureReads' /\ NothingBefore' /\ CancelledHasOne'
    BY <1>1 DEF ConfigureReads, NothingBefore, CancelledHasOne, eventVars, stockVars
<1> QED
    BY <1>4, <1>5, <1>6, <1>7, <1>8

\* A purchase moves to the replacement.
LEMMA CommitAcceptStep ==
    ASSUME ResolutionIInv, NEW p \in Purchases, CommitAccept(p)
    PROVE  ResolutionIInv'
<1> USE DEF ResolutionIInv
<1>1. UNCHANGED <<eventVars, bought, request, staff, refundJob, mapped, reservation, refusing>>
    BY DEF CommitAccept
<1>2. bought[p] = "PAID" /\ at[p] = "old" /\ p \notin accepted
    BY DEF CommitAccept, Serializable, AcceptKnows, NewRightsOnce
<1>3. /\ left' = left - Quantity[p] /\ setAside' = setAside - Quantity[p]
      /\ sold' = sold + Quantity[p] /\ left >= Quantity[p] /\ Quantity[p] \in Nat
    BY ResolutionAssumption DEF CommitAccept
<1>4. left \in Nat /\ setAside = left /\ sold \in Nat /\ sold + setAside <= Total
    BY DEF ResolutionTypeOK, ReplacementStock
<1>5. left' \in Nat /\ setAside' = left' /\ sold' \in Nat /\ sold' + setAside' <= Total /\ left' <= left
    BY <1>3, <1>4, ResolutionAssumption
<1>6. accepted' = accepted \cup {p} /\ accepted \subseteq Purchases
    BY DEF CommitAccept, ResolutionTypeOK
<1>7. QuantityOf(accepted') = Quantity[p] + QuantityOf(accepted) /\ QuantityOf(accepted) \in Nat
    BY <1>2, <1>6, QuantityWith, QuantityIsNat
<1>8. Cardinality(Confirmed) \in Nat /\ Confirmed' = Confirmed
    <2>1. IsFiniteSet(Confirmed)
        BY ResolutionAssumption, FS_Subset DEF Confirmed
    <2> QED
        BY <1>1, <2>1, FS_CardinalityType DEF Confirmed
<1>9. sold' = Cardinality(Confirmed') + QuantityOf(accepted')
    <2>1. sold = Cardinality(Confirmed) + QuantityOf(accepted)
        BY DEF ReplacementStock, Confirmed
    <2> QED
        BY <2>1, <1>3, <1>4, <1>7, <1>8
<1>10. ReplacementStock'
    BY <1>5, <1>9 DEF ReplacementStock, Confirmed
<1>11. /\ accepting' \in [Purchases -> Snapshots] /\ \A q \in Purchases : accepting'[q] # "fresh"
    <2>1. accepting' = [q \in Purchases |-> IF q = p THEN "none" ELSE Outdated(accepting[q])]
        BY DEF CommitAccept
    <2>2. \A q \in Purchases : Outdated(accepting[q]) \in Snapshots /\ Outdated(accepting[q]) # "fresh"
        BY OutdatedIs DEF ResolutionTypeOK
    <2>3. "none" \in Snapshots
        BY DEF Snapshots
    <2> QED
        BY <2>1, <2>2, <2>3
<1>12. /\ configuring' \in [snapshot : Snapshots, quantity : Nat, held : Nat]
       /\ configuring'.snapshot # "fresh"
    <2>1. configuring' = [configuring EXCEPT !.snapshot = Outdated(configuring.snapshot)]
        BY DEF CommitAccept
    <2>2. configuring \in [snapshot : Snapshots, quantity : Nat, held : Nat]
        BY DEF ConfigureReads
    <2>3. Outdated(configuring.snapshot) \in Snapshots /\ Outdated(configuring.snapshot) # "fresh"
        BY <2>2, OutdatedIs
    <2> QED
        BY <2>1, <2>2, <2>3
<1>13. /\ right' \in [Purchases -> [Events -> {"NONE", "AVAILABLE", "USED", "CANCELLED"}]]
       /\ \A q \in Purchases, d \in Events :
              right'[q][d] = IF q = p /\ d = "new" THEN RightsOf("new") ELSE right[q][d]
    BY DEF CommitAccept, RightsOf, ResolutionTypeOK, Events
<1>14. /\ at' = [at EXCEPT ![p] = "new"] /\ issued' = [issued EXCEPT ![p] = issued[p] + 1]
    BY DEF CommitAccept
<1>15. ResolutionTypeOK'
    BY <1>1, <1>5, <1>6, <1>11, <1>12, <1>13, <1>14 DEF ResolutionTypeOK, eventVars, Events
<1>16. NewRightsOnce'
    <2>1. ASSUME NEW q \in Purchases
          PROVE  issued'[q] = (IF at'[q] = "new" THEN 1 ELSE 0) /\ (at'[q] = "new" <=> q \in accepted')
        BY <1>2, <1>6, <1>14 DEF NewRightsOnce, ResolutionTypeOK
    <2>2. ASSUME NEW q \in Purchases, NEW e \in Events, event'[e] = "CANCELLED" \/ bought'[q] = "REFUNDED"
          PROVE  right'[q][e] # "AVAILABLE"
        BY <1>1, <1>2, <1>13, <2>2 DEF NewRightsOnce, RightsOf, eventVars
    <2> QED
        BY <2>1, <2>2 DEF NewRightsOnce
<1>17. OrderedIsAuthorized'
    BY <1>1 DEF OrderedIsAuthorized, Authorized, eventVars
<1>18. NothingBefore'
    BY <1>1, <1>4, <1>5 DEF NothingBefore
<1>19. ConfigureReads' /\ AcceptKnows' /\ CancelledHasOne'
    BY <1>1, <1>11, <1>12 DEF ConfigureReads, AcceptKnows, CancelledHasOne, eventVars
<1> QED
    BY <1>10, <1>15, <1>16, <1>17, <1>18, <1>19

\* A refusal is written, or reviewed: what was authorized stays so.
LEMMA RefuseStep ==
    ASSUME ResolutionIInv, NEW p \in Purchases, CommitRefuse(p) \/ ReviewBuyerRefund(p)
    PROVE  ResolutionIInv'
<1> USE DEF ResolutionIInv
<1>1. UNCHANGED <<eventVars, bought, at, right, issued, accepted, staff, refundJob, stockVars,
                  accepting, configuring>>
    BY DEF CommitRefuse, ReviewBuyerRefund, servingVars
<1>2. refusing' \subseteq Purchases
    BY DEF CommitRefuse, ReviewBuyerRefund, servingVars, ResolutionTypeOK
<1>3. /\ request' \in [Purchases -> BuyerRefundStatuses]
      /\ \A q \in Purchases : request[q] = "AUTHORIZED" => request'[q] = "AUTHORIZED"
    BY DEF CommitRefuse, ReviewBuyerRefund, Reviews, ResolutionTypeOK, BuyerRefundStatuses
<1>4. ResolutionTypeOK'
    BY <1>1, <1>2, <1>3 DEF ResolutionTypeOK, eventVars, stockVars
<1>5. ReplacementStock'
    BY <1>1 DEF ReplacementStock, stockVars
<1>6. NewRightsOnce'
    BY <1>1 DEF NewRightsOnce, eventVars
<1>7. OrderedIsAuthorized'
    BY <1>1, <1>3 DEF OrderedIsAuthorized, Authorized, eventVars
<1>8. ConfigureReads' /\ NothingBefore' /\ AcceptKnows' /\ CancelledHasOne'
    BY <1>1 DEF ConfigureReads, NothingBefore, AcceptKnows, CancelledHasOne, eventVars, stockVars
<1> QED
    BY <1>4, <1>5, <1>6, <1>7, <1>8

\* The worker discovers a refund that is authorized.
LEMMA DiscoverStep ==
    ASSUME ResolutionIInv, NEW p \in Purchases, DiscoverRefund(p)
    PROVE  ResolutionIInv'
<1> USE DEF ResolutionIInv
<1>1. UNCHANGED <<eventVars, bought, at, right, issued, accepted, request, staff, stockVars, servingVars>>
    BY DEF DiscoverRefund
<1>2. at[p] \in Events
    BY DEF ResolutionTypeOK
<1>3. /\ refundJob' = [refundJob EXCEPT ![p][at[p]] = "QUEUED"] /\ Authorized(p, at[p])
    BY DEF DiscoverRefund
<1>4. /\ refundJob' \in [Purchases -> [Events -> {"NONE", "QUEUED", "COMPLETED"}]]
      /\ \A q \in Purchases, e \in Events :
             refundJob'[q][e] # "NONE" => refundJob[q][e] # "NONE" \/ (q = p /\ e = at[p])
    BY <1>2, <1>3 DEF ResolutionTypeOK
<1>5. ResolutionTypeOK'
    BY <1>1, <1>4 DEF ResolutionTypeOK, eventVars, stockVars, servingVars
<1>6. ReplacementStock'
    BY <1>1 DEF ReplacementStock, stockVars
<1>7. NewRightsOnce'
    BY <1>1 DEF NewRightsOnce, eventVars
<1>8. OrderedIsAuthorized'
    BY <1>1, <1>3, <1>4 DEF OrderedIsAuthorized, Authorized, eventVars
<1>9. ConfigureReads' /\ NothingBefore' /\ AcceptKnows' /\ CancelledHasOne'
    BY <1>1 DEF ConfigureReads, NothingBefore, AcceptKnows, CancelledHasOne, eventVars, stockVars, servingVars
<1> QED
    BY <1>5, <1>6, <1>7, <1>8, <1>9

\* Nothing changes when the events rest.
LEMMA ResolutionRests == ASSUME ResolutionIInv, UNCHANGED resolutionVars PROVE ResolutionIInv'
<1>1. UNCHANGED <<eventVars, purchaseVars, stockVars, servingVars>>
    BY DEF resolutionVars
<1>2. ResolutionTypeOK' /\ ReplacementStock'
    BY <1>1 DEF ResolutionIInv, ResolutionTypeOK, ReplacementStock, eventVars, purchaseVars, stockVars, servingVars
<1>3. NewRightsOnce' /\ OrderedIsAuthorized' /\ ConfigureReads' /\ NothingBefore' /\ AcceptKnows' /\ CancelledHasOne'
    BY <1>1 DEF ResolutionIInv, NewRightsOnce, OrderedIsAuthorized, Authorized, ConfigureReads, NothingBefore,
       AcceptKnows, CancelledHasOne, eventVars, purchaseVars, stockVars, servingVars
<1> QED
    BY <1>2, <1>3 DEF ResolutionIInv

\* Every step of the resolution keeps the invariant.
LEMMA ResolutionKeeps == ASSUME ResolutionIInv, [ResolutionNext]_resolutionVars PROVE ResolutionIInv'
<1>1. CASE UNCHANGED resolutionVars
    BY <1>1, ResolutionRests
<1>2. ASSUME NEW e \in Events, \/ ChangeStatus(e) \/ PostponeEvent(e) \/ RescheduleEvent(e) \/ TimePasses(e)
                               \/ RequestCancellationRefund(e) \/ ReviewCancellation(e)
                               \/ \E mode \in DOMAIN ModeStatus : CancelWith(e, mode)
      PROVE  ResolutionIInv'
    BY <1>2, EventStep, CancelStep, ReviewStep
<1>3. ASSUME NEW p \in Purchases, \/ PayPurchase(p) \/ ExpirePurchase(p) \/ RefundPurchase(p) \/ StaffAsks(p)
                                  \/ \E e \in Events : UseRight(p, e)
      PROVE  ResolutionIInv'
    BY <1>3, OrderStep, StaffStep
<1>4. ASSUME NEW p \in Purchases, BeginAccept(p) \/ AcceptFails(p) \/ BeginRefuse(p) \/ CommitAccept(p)
      PROVE  ResolutionIInv'
    BY <1>4, BeginStep, CommitAcceptStep
<1>5. ASSUME NEW p \in Purchases, \/ CommitRefuse(p) \/ ReviewBuyerRefund(p) \/ DiscoverRefund(p)
                                  \/ \E e \in Events : CompleteRefund(p, e)
      PROVE  ResolutionIInv'
    BY <1>5, RefuseStep, DiscoverStep, ReleaseStep
<1>6. ASSUME NEW b \in Buyers, ReserveNew(b) \/ ConfirmNew(b) \/ ReleaseNew(b)
      PROVE  ResolutionIInv'
    BY <1>6, BuyerStep
<1>7. CASE BeginConfigure \/ ConfigureFails \/ CommitConfigure \/ ReleaseClosed
    BY <1>7, ConfigureStep, CommitConfigureStep, ReleaseStep
<1> QED
    BY <1>1, <1>2, <1>3, <1>4, <1>5, <1>6, <1>7 DEF ResolutionNext

\* The stock of a replacement is what its mapping reserved, its new rights
\* are given once, and what was ordered was authorized, however managers,
\* buyers and guests overlap (events.service.ts, commerce.service.ts).
THEOREM ResolutionInvariance == ResolutionSpec => []ResolutionInv
<1>1. ResolutionInit => ResolutionIInv
    BY InitResolution
<1>2. ResolutionIInv /\ [ResolutionNext]_resolutionVars => ResolutionIInv'
    BY ResolutionKeeps
<1>3. ResolutionIInv => ResolutionInv
    BY DEF ResolutionIInv, ResolutionInv
<1> QED
    BY <1>1, <1>2, <1>3, PTL DEF ResolutionSpec
=============================================================================
