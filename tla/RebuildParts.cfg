SPECIFICATION RebuildSpec
CONSTANTS
  Searchers = {s1, s2}
  Managers = {ma, mb, mc, mw}
  Ids = {t, va, vb, vc, ff}
  Starts = {va, vc}
  Changes = {t, vb}
  Match <- MCMatch
  Carries <- MCCarries
  First <- MCFirst
  Limits = {NoLimit}
  NoLimit = NoLimit
  Outer = Outer
  None = None
  Graphs <- MCGraphs
  MaxQueries = 2
  s1 = s1
  s2 = s2
  ma = ma
  mb = mb
  mc = mc
  mw = mw
  t = t
  va = va
  vb = vb
  vc = vc
  ff = ff
  h = h
  S = S
  T = T
  p = p
  q = q
  x = x
  tag = tag
  all = all
  v1 = v1
  v2 = v2
  Branches = {h, S, T}
  Pages = {p, q}
  Home = h
  Parent <- MCParent
  Prefix <- MCParent
  Terms = {tag}
  Params = {x}
  Values = {v1, v2}
  Matchers = {all}
  Takes <- MCTakes
  SiteCascade <- MCSite
  Sources <- MCSources
  FirstFile <- MCFirstFile
  MaxEdits = 4
  Raw = Raw
  xhtml = xhtml
  yhtml = yhtml
  xamp = xamp
  k1 = k1
  k2 = k2
  k3 = k3
  fx = fx
  fy = fy
  layout = layout
  css = css
  Outputs = {xhtml, yhtml, xamp}
  Stages = 2
  StageOf <- PageStage
  Blocks = {k1, k2, k3}
  BlockOf <- PageBlock
  Where <- PageWhere
  SiteFiles = {fx, layout, css}
  Reads <- PageReads
  Text <- PageText
  Asset <- PageAsset
  MaxChanges = 3
  file1 = file1
  file2 = file2
  Names = {file1, file2}
  MaxFileChanges = 4
INVARIANT RebuildTypeOK
INVARIANT ChangesReachSite
INVARIANT FindsOnlyDependents
INVARIANT NoFalseNegativesWithoutCycles
INVARIANT EntriesCurrent
INVARIANT PlainCascadeFromAbove
INVARIANT PublishedCurrent
INVARIANT DatesFromBelow
INVARIANT EditsArriveUnlessCrowded
INVARIANT BlocksPublished
SYMMETRY Symmetry
CHECK_DEADLOCK FALSE
