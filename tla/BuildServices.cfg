SPECIFICATION FairServicesSpec
CONSTANTS
  w1 = w1
  w2 = w2
  w3 = w3
  n1 = n1
  n2 = n2
  None = None
  Zero = Zero
  Calls = {w1, w2, w3}
  Namespaces = {n1, n2}
  Space <- Two
  PoolSize = 1
  MaxDeaths = 1
  MayTimeOut = {w1}
  u1 = u1
  u2 = u2
  u3 = u3
  fi = fi
  fm = fm
  fc = fc
  Users = {u1, u2, u3}
  Files = {fi, fm, fc}
  Meta = fm
  Content = fc
  Tasks <- MCTasks
  Ages = TRUE
  MaxCrashes = 1
  a = a
  b = b
  l = l
  gl = gl
  ra = ra
  sl = sl
  ga = ga
  gb = gb
  sa = sa
  sa2 = sa2
  sb = sb
  ia = ia
  o1 = o1
  o2 = o2
  Empty = Empty
  Setters = {a, b, l}
  Pages = {a, b}
  Along <- MCAlong
  Builders = {a, l}
  Groups = {ga, gb, gl}
  Scripts = {sa, sa2, ra, sb, sl}
  Instances = {ia}
  Runners = {ra}
  GroupOf <- MCGroupOf
  ScriptOf <- MCScriptOf
  Options = {o1, o2}
  Programs <- OwnGroups
  First <- OwnFirst
  MaxEdits = 3
  menus = menus
  data = data
  files = files
  t1 = t1
  t2 = t2
  Mixed = Mixed
  Inits = {menus, data, files}
  Child <- MCChild
  Works = {menus, files}
  FromPages = {menus}
  MayFail = {files}
  Asked = {menus, data}
  Always = {menus}
  Callers = {t1, t2}
  MayLapse = {t1}
  MaxBuilds = 1
INVARIANT ServicesTypeOK
INVARIANT AnswersFit
INVARIANT BundleFits
PROPERTY SentUnlessDead
PROPERTY TornOnlyWhenCut
PROPERTY LocksComeFree
PROPERTY AskersGetThisBuild
CHECK_DEADLOCK FALSE
