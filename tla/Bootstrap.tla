------------------------------ MODULE Bootstrap ------------------------------
(***************************************************************************)
(* The start of the server: `npm start` migrates, runs the production      *)
(* bootstrap and only then serves.  The bootstrap fills in what is missing *)
(* of the starter content, row by row and without a transaction, on every  *)
(* boot; the process may end between two steps, and the shop is edited     *)
(* meanwhile, by the instance being replaced or by the scripts.            *)
(* The Super Admin's account is in Accounts.                               *)
(***************************************************************************)
EXTENDS Integers, FiniteSetsExt

CONSTANTS
    Keyed,     \* starter rows found by a unique key: settings, categories, coupons...
    Basics,    \* those of them made on every boot (settings)
    OfCatalog, \* those of them that only a young shop is given (categories, brands)
    Slugs,     \* slugs of products
    Starters,  \* names of the starter products
    Curated,   \* those of them whose category has a curated photo
    SlugOf,    \* slugify of their names
    Handles,   \* slugs of the file that the import script reads
    Sold,      \* slugs of products with orders or reviews
    GrownAt,   \* with more products than this (60) the shop is no longer young
    Sections,  \* the homepage's section types
    MaxBoots, MaxShopEdits \* bounds

ASSUME BootstrapAssumption ==
    /\ SlugOf \in [Starters -> Slugs] /\ Curated \subseteq Starters /\ Handles \subseteq Slugs
    /\ OfCatalog \subseteq Keyed /\ Basics \subseteq Keyed \ OfCatalog
    /\ {"hero_banner", "ad_banner", "trending_products"} \subseteq Sections /\ IsFiniteSet(Sections)
    /\ {GrownAt, MaxBoots, MaxShopEdits} \subseteq Nat

VARIABLES
    keyed,    \* rows of Keyed that exist
    goods,    \* Product by slug: name and the kinds of photos it has
    section,  \* HomepageSection by type: position and configuration
    boot,     \* the bootstrap: its step, whether it leaves the catalog alone, a
              \* position it has read, what it has still to go through, and what of
              \* that has been deleted since
    script,   \* handles the import script has still to look at
    \* history
    standing, \* "edited" since the last bootstrap began; "booting", "settled" if not
    boots, shopEdits

BootVars == <<keyed, goods, section, boot, script, standing, boots, shopEdits>>
shop == <<keyed, goods, section>>

Off == [pc |-> "off", skip |-> FALSE, at |-> 0, todo |-> {}, gone |-> {}]
NoGoods == [name |-> "none", photos |-> {}]
NoSection == [exists |-> FALSE, position |-> 0, config |-> "none"]
There == {s \in Slugs : goods[s] # NoGoods}
Named(n) == {s \in There : goods[s].name = n}
Shown == {t \in Sections : section[t].exists}
Place(t) == section[t].position

\* A new shop, or one from before the two banners and the curated photos.
BootInit ==
    /\ \/ /\ keyed = {}
          /\ goods = [s \in Slugs |-> NoGoods]
          /\ section = [t \in Sections |-> NoSection]
       \/ /\ keyed = Keyed
          /\ goods = [s \in Slugs |-> IF \E n \in Starters : SlugOf[n] = s
                THEN [name |-> CHOOSE n \in Starters : SlugOf[n] = s, photos |-> {"random"}]
                ELSE NoGoods]
          /\ section = [t \in Sections |-> [NoSection EXCEPT
                                !.exists = t \notin {"hero_banner", "ad_banner"}]]
    /\ boot = Off
    /\ script = {}
    /\ standing = "edited" /\ boots = 0 /\ shopEdits = 0
-----------------------------------------------------------------------------
\* To another step, with what there is to do in it and a position.
Turn(pc, todo, at) ==
    boot' = [pc |-> pc, skip |-> boot.skip, at |-> at, todo |-> todo, gone |-> {}]
Goto(pc) == Turn(pc, {}, 0)
Done(x) == boot' = [boot EXCEPT !.todo = @ \ {x}]
Quiet == UNCHANGED <<script, standing, boots, shopEdits>>

\* A bootstrap begins: the settings row is made.  Where no account administers
\* the shop yet, all starter content is passed over ("bare").  Where one does, is
\* the shop past its starter catalog?
StartBoot ==
    LET grown == Cardinality(There) > GrownAt
        wanted == IF grown THEN Keyed \ OfCatalog ELSE Keyed
    IN  /\ boot.pc \in {"off", "failed", "up"} /\ boots < MaxBoots
        /\ keyed' = keyed \cup Basics
        /\ \/ boot' = [Off EXCEPT !.pc = "rows", !.skip = grown, !.todo = wanted \ Basics]
           \/ boot' = [Off EXCEPT !.pc = "bare", !.skip = grown]
        /\ boots' = boots + 1
        /\ standing' = IF standing = "edited" THEN "booting" ELSE standing
        /\ UNCHANGED <<goods, section, script, shopEdits>>

\* Faulty variant: only an empty shop is given its starter products.
ToSupplyOnce == IF There # {} THEN {} ELSE Starters

\* What the next loop goes through: the starter products; the starter products
\* without a photo; those that have the random photo of an earlier boot where a
\* curated one exists.  The last two are queries, made once.
ToSupply == IF boot.skip THEN {} ELSE Starters
ToBackfill == {s \in There : goods[s].name \in Starters /\ goods[s].photos = {}}
ToUpgrade == {s \in There : goods[s].name \in Curated /\ "random" \in goods[s].photos}

FillRow ==
    /\ boot.pc = "rows"
    /\ \/ \E k \in boot.todo : keyed' = keyed \cup {k} /\ Done(k)
       \/ boot.todo = {} /\ Turn("products", ToSupply, 0) /\ UNCHANGED keyed
    /\ Quiet /\ UNCHANGED <<goods, section>>

ImageUrl(n) == IF n \in Curated THEN "curated" ELSE "random"

\* A product is missed by its name and created under the name's slug.  Where
\* that slug is taken, or its category or brand has been deleted meanwhile, the
\* insert fails, and the process ends with it.
FillProduct ==
    /\ boot.pc = "products"
    /\ \/ \E n \in boot.todo : Named(n) # {} /\ Done(n) /\ UNCHANGED goods
       \/ \E n \in boot.todo : /\ Named(n) = {}
                               /\ SlugOf[n] \in There \/ ~(OfCatalog \subseteq keyed)
                               /\ Goto("failed") /\ UNCHANGED goods
       \/ \E n \in boot.todo :
             /\ Named(n) = {} /\ SlugOf[n] \notin There
             /\ goods' = [goods EXCEPT ![SlugOf[n]] = [name |-> n, photos |-> {ImageUrl(n)}]]
             /\ Done(n)
       \/ boot.todo = {} /\ Turn("backfill", ToBackfill, 0) /\ UNCHANGED goods
    /\ Quiet /\ UNCHANGED <<keyed, section>>

\* Faulty variant: the update goes to all photos of the product.
UpgradedAll(photos) == {"curated"}

Upgraded(photos) == (photos \ {"random"}) \cup {"curated"}

\* backfillCatalogImages: a photo for the products listed as having none, then
\* the curated photo in the place of each random one that is listed.  What is
\* listed and deleted before its turn makes the statement, and the boot, fail.
FillPhoto ==
    /\ boot.pc = "backfill"
    /\ \/ \E s \in boot.todo \ boot.gone, n \in Starters :
             /\ SlugOf[n] = s
             /\ goods' = [goods EXCEPT ![s].photos = @ \cup {ImageUrl(n)}] /\ Done(s)
       \/ boot.todo \cap boot.gone # {} /\ Goto("failed") /\ UNCHANGED goods
       \/ boot.todo = {} /\ Turn("upgrade", ToUpgrade, 0) /\ UNCHANGED goods
    /\ Quiet /\ UNCHANGED <<keyed, section>>

UpgradePhoto ==
    /\ boot.pc = "upgrade"
    /\ \/ \E s \in boot.todo \ boot.gone :
             goods' = [goods EXCEPT ![s].photos = Upgraded(@)] /\ Done(s)
       \/ boot.todo \cap boot.gone # {} /\ Goto("failed") /\ UNCHANGED goods
       \/ boot.todo = {} /\ Goto("sections") /\ UNCHANGED goods
    /\ Quiet /\ UNCHANGED <<keyed, section>>

Put(t, place) == [section EXCEPT ![t] = [exists |-> TRUE, position |-> place, config |-> "starter"]]

\* A homepage without sections gets all, one by one; if the process ends in
\* between, the rest is up to the next case.
FillSections ==
    /\ boot.pc = "sections" /\ Shown = {}
    /\ \E order \in {f \in [Sections -> 0..Cardinality(Sections) - 1] :
                        /\ \A t, u \in Sections : f[t] = f[u] => t = u
                        /\ f["hero_banner"] = 0
                        /\ f["trending_products"] = f["ad_banner"] + 1},
          k \in 1..Cardinality(Sections) :
          /\ section' = [t \in Sections |->
                IF order[t] >= k THEN NoSection
                ELSE [exists |-> TRUE, position |-> order[t],
                      config |-> IF t \in {"hero_banner", "ad_banner"} THEN "starter" ELSE "none"]]
          /\ IF k = Cardinality(Sections) THEN Goto("rehost") ELSE Goto("off")
    /\ Quiet /\ UNCHANGED <<keyed, goods>>

\* Where the homepage has sections, the hero banner is looked up; only a later
\* statement inserts it, above the lowest position read before, or gives the row
\* that was found without a configuration the starter one.
ReadHero ==
    LET hero == section["hero_banner"]
    IN  /\ boot.pc = "sections" /\ Shown # {}
        /\ \/ ~hero.exists /\ Goto("lowest")
           \/ hero.exists /\ hero.config = "none" /\ Turn("hero", {"hero_banner"}, 0)
           \/ hero.exists /\ hero.config # "none" /\ Goto("shift")
        /\ Quiet /\ UNCHANGED shop

ReadLowest ==
    /\ boot.pc = "lowest"
    /\ Turn("insert", {}, IF Shown = {} THEN -1 ELSE Min({Place(t) : t \in Shown}) - 1)
    /\ Quiet /\ UNCHANGED shop

\* (One section of each type is modelled: a second, inserted while an admin adds
\* the first, is left out.)
InsertHero ==
    /\ boot.pc = "insert"
    /\ section' = IF section["hero_banner"].exists THEN section ELSE Put("hero_banner", boot.at)
    /\ Goto("shift") /\ Quiet /\ UNCHANGED <<keyed, goods>>

ConfigureHero ==
    /\ boot.pc = "hero"
    /\ IF "hero_banner" \in boot.gone THEN Goto("failed") /\ UNCHANGED section
       ELSE section' = [section EXCEPT !["hero_banner"].config = "starter"] /\ Goto("shift")
    /\ Quiet /\ UNCHANGED <<keyed, goods>>

\* Every section from a position on moves down by one.
ShiftedFrom(at) ==
    [t \in Sections |-> IF section[t].exists /\ Place(t) >= at
                        THEN [section[t] EXCEPT !.position = @ + 1] ELSE section[t]]

\* The ad banner goes before the trending products: their position is read, one
\* statement makes room from there on, the next inserts it.
ReadTrending ==
    /\ boot.pc = "shift"
    /\ IF ~section["ad_banner"].exists /\ section["trending_products"].exists
       THEN Turn("room", {}, Place("trending_products"))
       ELSE Goto("rehost")
    /\ Quiet /\ UNCHANGED shop

MakeRoom ==
    /\ boot.pc = "room" /\ section' = ShiftedFrom(boot.at)
    /\ Turn("ad", {}, boot.at) /\ Quiet /\ UNCHANGED <<keyed, goods>>

InsertAd ==
    /\ boot.pc = "ad"
    /\ section' = IF section["ad_banner"].exists THEN section ELSE Put("ad_banner", boot.at)
    /\ Goto("rehost") /\ Quiet /\ UNCHANGED <<keyed, goods>>

Hosted(photos) == (photos \ {"curated"}) \cup {"hosted"}

\* rehostCuratedImages tries each photo; what fails is left for the next boot.
Rehost ==
    /\ boot.pc \in {"rehost", "bare"}
    /\ \E moved \in SUBSET {s \in There : "curated" \in goods[s].photos} :
          goods' = [s \in Slugs |-> IF s \in moved
                        THEN [goods[s] EXCEPT !.photos = Hosted(@)] ELSE goods[s]]
    /\ standing' = IF boot.pc = "rehost" /\ standing = "booting" THEN "settled" ELSE standing
    /\ Goto("up") /\ UNCHANGED <<keyed, section, script, boots, shopEdits>>

\* The process ends, during the bootstrap or later.
Crash == boot.pc # "off" /\ boot' = Off /\ Quiet /\ UNCHANGED shop
-----------------------------------------------------------------------------
\* An edit deletes rows, which the bootstrap may have listed.
Edit(deleted) ==
    /\ shopEdits < MaxShopEdits /\ shopEdits' = shopEdits + 1
    /\ boot' = [boot EXCEPT !.gone = @ \cup (boot.todo \cap deleted)]
    /\ standing' = "edited" /\ UNCHANGED boots

\* A product is created, renamed (under its slug), or deleted; or its photos are
\* all deleted and created anew from the form.
EditGoods(s) ==
    /\ \/ s \notin There /\ Edit({}) /\ goods' = [goods EXCEPT ![s] = [name |-> "own", photos |-> {}]]
       \/ s \in There /\ Edit({}) /\ goods' = [goods EXCEPT ![s].name = "own"]
       \/ /\ s \in There /\ Edit(IF boot.pc = "upgrade" THEN {s} ELSE {})
          /\ \E photos \in {{}, {"own"}, {"own"} \cup goods[s].photos} :
                goods' = [goods EXCEPT ![s].photos = photos]
       \/ s \in There \ Sold /\ Edit({s}) /\ goods' = [goods EXCEPT ![s] = NoGoods]
    /\ UNCHANGED <<keyed, section, script>>

RemoveRow(k) ==
    /\ k \in keyed \ Basics /\ keyed' = keyed \ {k}
    /\ Edit({}) /\ UNCHANGED <<goods, section, script>>

\* A section is added last, removed, configured; or two change places.
EditSections(t) ==
    /\ \/ /\ ~section[t].exists /\ Edit({})
          /\ section' = [section EXCEPT ![t] = [exists |-> TRUE, config |-> "none",
                position |-> IF Shown = {} THEN 0 ELSE 1 + Max({Place(u) : u \in Shown})]]
       \/ t \in Shown /\ Edit({t}) /\ section' = [section EXCEPT ![t] = NoSection]
       \/ t \in Shown /\ Edit({}) /\ section' = [section EXCEPT ![t].config = "own"]
       \/ \E u \in Shown \ {t} : /\ t \in Shown /\ Edit({})
                                 /\ section' = [section EXCEPT ![t].position = Place(u),
                                                               ![u].position = Place(t)]
    /\ UNCHANGED <<keyed, goods, script>>

\* The clean-up scripts delete what nobody has bought or reviewed, and hide the
\* rest: of everything, of what is filed under the demo brands (the starter
\* products and, once, real stock), or of the starter products by name.
Remove(doomed) ==
    /\ goods' = [s \in Slugs |-> IF s \in doomed \ Sold THEN NoGoods ELSE goods[s]]
    /\ Edit(doomed \ Sold) /\ UNCHANGED <<keyed, section, script>>

OfStarters == {s \in There : goods[s].name \in Starters}

CleanUp == Remove(There)
CleanUpByBrand == \E filed \in SUBSET There : OfStarters \subseteq filed /\ Remove(filed)
RemoveZombies == Remove(OfStarters)

\* restoreJuly22Products brings back what was deleted by mistake.
RestoreProduct(s) ==
    /\ s \notin There /\ goods' = [goods EXCEPT ![s] = [name |-> "own", photos |-> {"own"}]]
    /\ Edit({}) /\ UNCHANGED <<keyed, section, script>>

\* enrichExistingPhonesFromCsv gives photos to products without one, as far as
\* the file has a match.
Enrich ==
    /\ \E matched \in (SUBSET {s \in There : goods[s].photos = {}}) \ {{}} :
          goods' = [s \in Slugs |-> IF s \in matched THEN [goods[s] EXCEPT !.photos = {"own"}]
                                    ELSE goods[s]]
    /\ Edit({}) /\ UNCHANGED <<keyed, section, script>>

\* importPhoneShopCsv: a handle that is there has been imported.
StartScript == script = {} /\ script' = Handles /\ Edit({}) /\ UNCHANGED shop

ScriptRow(h) ==
    /\ h \in script /\ script' = script \ {h}
    /\ goods' = IF h \in There THEN goods
                ELSE [goods EXCEPT ![h] = [name |-> "own", photos |-> {"own"}]]
    /\ standing' = "edited" /\ UNCHANGED <<keyed, section, boot, boots, shopEdits>>

BootNext ==
    \/ StartBoot \/ FillRow \/ FillProduct \/ FillPhoto \/ UpgradePhoto \/ FillSections
    \/ ReadHero \/ ReadLowest \/ InsertHero \/ ConfigureHero \/ ReadTrending \/ MakeRoom
    \/ InsertAd \/ Rehost \/ Crash
    \/ CleanUp \/ CleanUpByBrand \/ RemoveZombies \/ Enrich \/ StartScript
    \/ \E s \in Slugs : EditGoods(s) \/ RestoreProduct(s) \/ ScriptRow(s)
    \/ \E k \in Keyed : RemoveRow(k)
    \/ \E t \in Sections : EditSections(t)

BootSpec == BootInit /\ [][BootNext]_BootVars
-----------------------------------------------------------------------------
Photos == {"random", "curated", "hosted", "own"}
Goods == [name : Starters \cup {"own", "none"}, photos : SUBSET Photos]
Section == [exists : BOOLEAN, position : Int, config : {"none", "starter", "own"}]
Steps == {"off", "failed", "rows", "products", "backfill", "upgrade", "sections", "lowest", "insert",
          "hero", "shift", "room", "ad", "rehost", "bare", "up"}
RowIds == Keyed \cup Starters \cup Slugs \cup Sections
Boot == [pc : Steps, skip : BOOLEAN, at : Int, todo : SUBSET RowIds, gone : SUBSET RowIds]

BootTypeOK ==
    /\ keyed \subseteq Keyed /\ script \subseteq Handles
    /\ goods \in [Slugs -> Goods] /\ section \in [Sections -> Section]
    /\ boot \in Boot
    /\ standing \in {"edited", "booting", "settled"}
    /\ boots \in 0..MaxBoots /\ shopEdits \in 0..MaxShopEdits

\* Whatever deletions, crashes and half bootstraps came before, a bootstrap that
\* gets through leaves the settings row, and one that finds an administrator and
\* gets through undisturbed leaves the starter content complete ("re-running it
\* only ever creates whatever is still missing"): a photo for every starter
\* product, no random one where there is a curated one, and both banners.
BootSettles ==
    boot.pc = "up" =>
        /\ Basics \subseteq keyed
        /\ standing = "settled" =>
              /\ Keyed \ (IF boot.skip THEN OfCatalog ELSE {}) \subseteq keyed
              /\ boot.skip \/ \A n \in Starters : Named(n) # {}
              /\ ToBackfill = {} /\ ToUpgrade = {}
              /\ section["hero_banner"].exists /\ section["hero_banner"].config # "none"
              /\ section["trending_products"].exists => section["ad_banner"].exists

\* A bootstrap only adds ("never touches a photo a real merchant/admin has since
\* uploaded"): rows, names, the shop's own photos and texts and the order of the
\* sections stay, the ad banner comes right before the trending products, and
\* after a bootstrap that got through, the next ones add nothing.  Of the texts
\* one may be lost: a configuration of the hero banner that is saved after the
\* bootstrap has read that there is none (the comment at the update says it
\* "never overwrites a config an admin has since set").
OnlyAdds ==
    shopEdits' = shopEdits /\ script' = script =>
        /\ keyed \subseteq keyed'
        /\ \A s \in There : /\ goods'[s].name = goods[s].name
                           /\ "own" \in goods[s].photos => "own" \in goods'[s].photos
        /\ \A t \in Shown : /\ section'[t].exists
                           /\ section[t].config = "own" =>
                                \/ section'[t].config = "own"
                                \/ t = "hero_banner" /\ boot.pc = "hero" /\ standing = "edited"
        /\ \A t, u \in Shown : Place(t) < Place(u) => section'[t].position < section'[u].position
        /\ section'["ad_banner"].exists /\ "ad_banner" \notin Shown /\ Shown # {}
              /\ standing # "edited"
            => section'["ad_banner"].position = section'["trending_products"].position - 1
        /\ standing = "settled" =>
              /\ UNCHANGED <<keyed, section>>
              /\ \A s \in Slugs : /\ goods'[s].name = goods[s].name
                                 /\ goods'[s].photos \ {"hosted"} \subseteq goods[s].photos

\* So does every step of every boot.
BootOnlyAdds == [][OnlyAdds]_BootVars
=============================================================================
