CONSTANTS
  alice = alice
  bob = bob
  start = start
  cellar = cellar
  rat1 = rat1
  rat2 = rat2
  potion = potion
  grenade = grenade
  clearRats = clearRats
  fetchPotion = fetchPotion
  Players <- Both
  Rooms <- BothRooms
  Start = start
  Exits <- ToAndFro
  ItemRoom <- GrenadeAsReward
  NpcRoom <- InTheCellar
  None = None
  Items <- Things
  Npcs <- Rats
  Heals = {potion}
  Harms = {grenade}
  Amount <- OneEach
  NpcHp <- OneEachRat
  Hits = {0, 3}
  Counters = {0, 1}
  MaxHp = 1
  RespawnHp = 1
  FetchTarget <- ThePotion
  DefeatTargets <- BothRats
  Reward <- FetchedReward
  Dialogue <- OneLine
  BonusDialogue <- OneLine
  UnlockQuests <- ForClearing
  MaxIncidents = 1
SPECIFICATION Spec
INVARIANTS DefeatSettled CompletedMeansDead ItemUnique NpcPresentIffAlive NextLineThere SessionRoomAgrees
SYMMETRY Sym
VIEW Unread
