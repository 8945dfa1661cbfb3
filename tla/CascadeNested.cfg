SPECIFICATION AssemblerSpec
CONSTANTS
 None=None
 h=h
 S=S
 T=T
 p=p
 q=q
 x=x
 tag=tag
 all = all
 v1=v1
 v2=v2
 Branches={h,S,T}
 Pages={p,q}
 Home=h
 Parent<-MCParent
 Prefix<-MCParent
 Terms={tag}
 Params={x}
 Values={v1,v2}
 Matchers={all}
 Takes<-MCTakes
 SiteCascade<-MCSite
 Sources<-NestedSources
 FirstFile<-NestedFirst
 MaxEdits=2
INVARIANT CascadeFromAbove
CHECK_DEADLOCK FALSE
